---------------------------- MODULE Spec2Model ----------------------------
(***************************************************************************)
(* EpiWatch analytics core: time aggregation, anomaly detection,           *)
(* Holt forecasting, multi-factor risk classification, alert generation    *)
(* and the route module that publishes their results.                      *)
(*                                                                         *)
(* Numbers.  The program computes in IEEE doubles.  The model computes in  *)
(* decimal fixed point: a real x is the integer x * Scale, every product   *)
(* and quotient is rounded to the nearest 1/Scale.  Values the program     *)
(* rounds to two decimals (Math.round(x * 100) / 100) are integers in      *)
(* hundredths.  Timestamps are whole minutes since the epoch (UTC).        *)
(***************************************************************************)
EXTENDS Integers, Sequences, FiniteSets, TLC

VARIABLES
    admFile,             \* data/hospital_admissions.json on disk
    waterFile,           \* data/water_quality.json on disk
    admissions,          \* module variables of the route module
    waterQuality,
    admissionAgg,
    waterAgg,
    anomalies,
    forecasts,
    riskClassifications,
    alerts,
    correlations,
    response,            \* the last HTTP response sent
    clock,               \* the wall clock, in minutes
    op,                  \* pure-function harness: the function applied
    args,                \* its arguments
    ret                  \* its result

published == <<admissions, waterQuality, admissionAgg, waterAgg, anomalies,
               forecasts, riskClassifications, alerts, correlations>>
server == <<admFile, waterFile, admissions, waterQuality, admissionAgg,
            waterAgg, anomalies, forecasts, riskClassifications, alerts,
            correlations, response, clock>>
vars == <<admFile, waterFile, admissions, waterQuality, admissionAgg,
          waterAgg, anomalies, forecasts, riskClassifications, alerts,
          correlations, response, clock, op, args, ret>>

----------------------------------------------------------------------------
(* Fixed-point arithmetic *)

Scale == 10^4

FP(n) == n * Scale

Max(a, b) == IF a >= b THEN a ELSE b
Min(a, b) == IF a <= b THEN a ELSE b
Abs(a) == IF a < 0 THEN -a ELSE a

\* round(a * b / Scale), split so that no intermediate exceeds 32 bits
FMul(a, b) ==
    LET qa == a \div Scale
        ma == a % Scale
        qb == b \div Scale
        mb == b % Scale
    IN  qa * qb * Scale + qa * mb + ma * qb
        + ((ma * mb + Scale \div 2) \div Scale)

\* round(a / n) for an integer n > 0
IDiv(a, n) == (2 * a + n) \div (2 * n)

\* long division: the quotient so far and the remainder, one decimal digit on
RECURSIVE DivDigits(_, _, _, _)
DivDigits(quotient, remainder, b, digits) ==
    IF digits = 0 THEN quotient + (IF 2 * remainder >= b THEN 1 ELSE 0)
    ELSE DivDigits(quotient * 10 + (remainder * 10) \div b,
                   (remainder * 10) % b, b, digits - 1)

\* round(a / b) for fixed-point b > 0, digit by digit so that nothing overflows
FDiv(a, b) == DivDigits(a \div b, a % b, b, 4)

\* mid * mid <= a * Scale, without forming either product
SquareAtMost(mid, a) ==
    LET q  == mid \div Scale
        m  == mid % Scale
        hi == q * q * Scale + 2 * q * m + ((m * m) \div Scale)
        lo == (m * m) % Scale
    IN  hi < a \/ (hi = a /\ lo = 0)

RECURSIVE SqrtSearch(_, _, _)
SqrtSearch(a, lo, hi) ==
    IF lo >= hi THEN lo
    ELSE LET mid == (lo + hi + 1) \div 2
         IN  IF SquareAtMost(mid, a)
             THEN SqrtSearch(a, mid, hi)
             ELSE SqrtSearch(a, lo, mid - 1)

\* Math.sqrt on a fixed-point a >= 0: the largest r with r * r <= a * Scale
\* (a root of a 32-bit a is below 460 units)
FSqrt(a) == SqrtSearch(a, 0, Min(Max(a, Scale), FP(460)))

\* Math.round(x * 100) / 100, in hundredths (Math.round is floor(y + 1/2))
Round2(x) == (2 * 100 * x + Scale) \div (2 * Scale)

\* a two-decimal value back in fixed point
Hundredths(h) == h * (Scale \div 100)

RECURSIVE SumSeq(_)
SumSeq(s) == IF s = <<>> THEN 0 ELSE Head(s) + SumSeq(Tail(s))

Last(s) == s[Len(s)]

\* Array.prototype.slice(-k)
SliceLast(s, k) == IF Len(s) <= k THEN s ELSE SubSeq(s, Len(s) - k + 1, Len(s))

\* Array.prototype.slice(-hi, -lo) for hi > lo > 0
SliceBack(s, hi, lo) ==
    SubSeq(s, Max(1, Len(s) - hi + 1), Len(s) - lo)

\* the distinct elements of s in order of first appearance, after seen
RECURSIVE Distinct(_, _)
Distinct(s, seen) ==
    IF s = <<>> THEN seen
    ELSE Distinct(Tail(s), IF \E i \in 1..Len(seen) : seen[i] = Head(s)
                           THEN seen ELSE Append(seen, Head(s)))

RECURSIVE Concat(_)
Concat(seqs) == IF seqs = <<>> THEN <<>> ELSE Head(seqs) \o Concat(Tail(seqs))

\* obj[key] || 0 on a counting map
Get(map, key) == IF key \in DOMAIN map THEN map[key] ELSE 0

\* Math.round(x) of a fixed-point x, an integer
RoundInt(x) == (2 * x + Scale) \div (2 * Scale)

\* Array.prototype.sort with comparator (a, b) => key(a) - key(b): the sort is
\* stable, so the element at index i lands after every element with a smaller
\* key and after the earlier elements with an equal key.
SortRank(keys, i) ==
    Cardinality({j \in 1..Len(keys) : keys[j] < keys[i]})
    + Cardinality({j \in 1..i : keys[j] = keys[i]})

SortByKeys(s, keys) ==
    [k \in 1..Len(s) |-> s[CHOOSE i \in 1..Len(s) : SortRank(keys, i) = k]]

----------------------------------------------------------------------------
(* DataPreprocessor (src/dataPreprocessor.js) *)

MinutesPerDay == 24 * 60

\* setMinutes(0, 0, 0); setHours(Math.floor(ts.getHours() / bucketHours) * bucketHours)
BucketStart(ts, bucketHours) ==
    LET day  == ts - (ts % MinutesPerDay)
        hour == (ts % MinutesPerDay) \div 60
    IN  day + (hour \div bucketHours) * bucketHours * 60

\* timeBucket: the bucket keys in order of first appearance
RECURSIVE BucketKeys(_, _, _)
BucketKeys(records, bucketHours, keys) ==
    IF records = <<>> THEN keys
    ELSE LET key == BucketStart(Head(records).timestamp, bucketHours)
         IN  BucketKeys(Tail(records), bucketHours,
                        IF \E i \in 1..Len(keys) : keys[i] = key
                        THEN keys ELSE Append(keys, key))

TimeBucket(records, bucketHours) ==
    LET keys == BucketKeys(records, bucketHours, <<>>)
    IN  [k \in 1..Len(keys) |->
            [key |-> keys[k],
             records |-> SelectSeq(records,
                 LAMBDA r : BucketStart(r.timestamp, bucketHours) = keys[k])]]

\* a bucket that counts only the three preset severities
AdmissionBucketPresetSeverities(timestamp, records) ==
    LET diseases   == {records[i].disease : i \in 1..Len(records)}
        regionIds  == {records[i].regionId : i \in 1..Len(records)}
        severities == {"Mild", "Moderate", "Severe"}
    IN  [timestamp |-> timestamp,
         total |-> Len(records),
         byDisease |-> [d \in diseases |-> Len(SelectSeq(records, LAMBDA r : r.disease = d))],
         byRegion |-> [g \in regionIds |-> Len(SelectSeq(records, LAMBDA r : r.regionId = g))],
         regionKeys |-> Distinct([i \in 1..Len(records) |-> records[i].regionId], <<>>),
         bySeverity |-> [v \in severities |-> Len(SelectSeq(records, LAMBDA r : r.severity = v))],
         avgAge |-> RoundInt(IDiv(FP(SumSeq([i \in 1..Len(records) |-> records[i].patientAge])),
                                  Len(records))),
         anomalyCount |-> Len(SelectSeq(records, LAMBDA r : r.isAnomaly))]

AdmissionBucket(timestamp, records) ==
    LET diseases   == {records[i].disease : i \in 1..Len(records)}
        regionIds  == {records[i].regionId : i \in 1..Len(records)}
        severities == {"Mild", "Moderate", "Severe"}
                      \cup {records[i].severity : i \in 1..Len(records)}
    IN  [timestamp |-> timestamp,
         total |-> Len(records),
         byDisease |-> [d \in diseases |-> Len(SelectSeq(records, LAMBDA r : r.disease = d))],
         byRegion |-> [g \in regionIds |-> Len(SelectSeq(records, LAMBDA r : r.regionId = g))],
         regionKeys |-> Distinct([i \in 1..Len(records) |-> records[i].regionId], <<>>),
         bySeverity |-> [v \in severities |-> Len(SelectSeq(records, LAMBDA r : r.severity = v))],
         avgAge |-> RoundInt(IDiv(FP(SumSeq([i \in 1..Len(records) |-> records[i].patientAge])),
                                  Len(records))),
         anomalyCount |-> Len(SelectSeq(records, LAMBDA r : r.isAnomaly))]

\* the buckets left in order of first appearance: no result.sort
AggregateAdmissionsUnsorted(records, bucketHours) ==
    LET buckets == TimeBucket(records, bucketHours)
    IN  [k \in 1..Len(buckets) |->
            AdmissionBucket(buckets[k].key, buckets[k].records)]

AggregateAdmissions(records, bucketHours) ==
    LET buckets == TimeBucket(records, bucketHours)
        result  == [k \in 1..Len(buckets) |->
                       AdmissionBucket(buckets[k].key, buckets[k].records)]
    IN  SortByKeys(result, [k \in 1..Len(result) |-> result[k].timestamp])

\* the average of one reading over a region's samples, fixed-point
AvgOf(samples, reading) ==
    IDiv(SumSeq([i \in 1..Len(samples) |-> samples[i][reading]]), Len(samples))

\* readings of a sample are fixed-point; averages are rounded as the code rounds
RegionAverage(samples) ==
    [avgPH        |-> Hundredths(Round2(AvgOf(samples, "pH"))),
     avgTurbidity |-> Hundredths(Round2(AvgOf(samples, "turbidity"))),
     avgColiform  |-> FP(RoundInt(AvgOf(samples, "coliformCount"))),
     avgDO        |-> Hundredths(Round2(AvgOf(samples, "dissolvedOxygen"))),
     sampleCount  |-> Len(samples),
     hasAnomaly   |-> \E i \in 1..Len(samples) : samples[i].isAnomaly]

WaterBucket(timestamp, records) ==
    LET regionIds == {records[i].regionId : i \in 1..Len(records)}
    IN  [timestamp |-> timestamp,
         regionAverages |->
             [g \in regionIds |->
                 RegionAverage(SelectSeq(records, LAMBDA r : r.regionId = g))]]

AggregateWaterQuality(waterData, bucketHours) ==
    LET buckets == TimeBucket(waterData, bucketHours)
        result  == [k \in 1..Len(buckets) |->
                       WaterBucket(buckets[k].key, buckets[k].records)]
    IN  SortByKeys(result, [k \in 1..Len(result) |-> result[k].timestamp])

\* a coliform sub-score without its floor: 100 - coliformCount * 0.5
ComputeWQIColiformUnfloored(params) ==
    LET pH == params.pH
        pHScore ==
            IF pH >= (65 * Scale) \div 10 /\ pH <= (85 * Scale) \div 10
            THEN FP(100) - Abs(pH - FP(7)) * 20
            ELSE Max(0, FP(50) - Abs(pH - FP(7)) * 15)
        turbidityScore == Max(0, FP(100) - params.turbidity * 5)
        coliformScore  == FP(100) - FMul(params.coliformCount, Scale \div 2)
        doScore        == Min(FP(100), params.dissolvedOxygen * 12)
        chlorineScore  ==
            IF params.chlorineResidual >= (2 * Scale) \div 10
            THEN Min(FP(100), params.chlorineResidual * 100)
            ELSE params.chlorineResidual * 200
        wqi == FMul(pHScore, (15 * Scale) \div 100)
               + FMul(turbidityScore, (20 * Scale) \div 100)
               + FMul(coliformScore, (30 * Scale) \div 100)
               + FMul(doScore, (20 * Scale) \div 100)
               + FMul(chlorineScore, (15 * Scale) \div 100)
    IN  RoundInt(Max(0, Min(FP(100), wqi)))

\* computeWQI: every parameter fixed-point, the result an integer in 0..100
ComputeWQI(params) ==
    LET pH == params.pH
        pHScore ==
            IF pH >= (65 * Scale) \div 10 /\ pH <= (85 * Scale) \div 10
            THEN FP(100) - Abs(pH - FP(7)) * 20
            ELSE Max(0, FP(50) - Abs(pH - FP(7)) * 15)
        turbidityScore == Max(0, FP(100) - params.turbidity * 5)
        coliformScore  == Max(0, FP(100) - FMul(params.coliformCount, Scale \div 2))
        doScore        == Min(FP(100), params.dissolvedOxygen * 12)
        chlorineScore  ==
            IF params.chlorineResidual >= (2 * Scale) \div 10
            THEN Min(FP(100), params.chlorineResidual * 100)
            ELSE params.chlorineResidual * 200
        wqi == FMul(pHScore, (15 * Scale) \div 100)
               + FMul(turbidityScore, (20 * Scale) \div 100)
               + FMul(coliformScore, (30 * Scale) \div 100)
               + FMul(doScore, (20 * Scale) \div 100)
               + FMul(chlorineScore, (15 * Scale) \div 100)
    IN  RoundInt(Max(0, Min(FP(100), wqi)))

----------------------------------------------------------------------------
(* Forecaster (src/forecaster.js) *)

\* new Forecaster({ alpha: 0.3, trendAlpha: 0.1 })
Alpha == (3 * Scale) \div 10
TrendAlpha == Scale \div 10
ForecastHours == 48
BucketHours == 6

\* a level update that weighs the previous level by alpha, not 1 - alpha
HoltLevelNoComplement(value, prevLevel, trend) ==
    FMul(Alpha, value) + FMul(Alpha, prevLevel + trend)

\* level = alpha * values[i] + (1 - alpha) * (prevLevel + trend)
HoltLevel(value, prevLevel, trend) ==
    FMul(Alpha, value) + FMul(Scale - Alpha, prevLevel + trend)

\* trend = trendAlpha * (level - prevLevel) + (1 - trendAlpha) * trend
HoltTrend(level, prevLevel, trend) ==
    FMul(TrendAlpha, level - prevLevel) + FMul(Scale - TrendAlpha, trend)

\* the loop body of _holtSmoothing, from index i (1-based) on
RECURSIVE HoltLoop(_, _, _, _, _)
HoltLoop(values, i, level, trend, smoothed) ==
    IF i > Len(values) THEN [level |-> level, trend |-> trend, smoothed |-> smoothed]
    ELSE LET newLevel == HoltLevel(values[i], level, trend)
             newTrend == HoltTrend(newLevel, level, trend)
         IN  HoltLoop(values, i + 1, newLevel, newTrend, Append(smoothed, newLevel))

\* values are fixed-point
HoltSmoothing(values) ==
    IF Len(values) < 2
    THEN [level |-> IF Len(values) = 0 THEN 0 ELSE values[1],
          trend |-> 0, smoothed |-> values]
    ELSE HoltLoop(values, 2, values[1], values[2] - values[1], <<values[1]>>)

ComputeResiduals(actual, smoothed) ==
    LET residuals == [i \in 1..Len(actual) |-> actual[i] - smoothed[i]]
        squares   == [i \in 1..Len(actual) |-> FMul(residuals[i], residuals[i])]
        mse       == IDiv(SumSeq(squares), Len(actual))
    IN  [residuals |-> residuals, standardError |-> FSqrt(mse)]

\* Math.ceil(forecastHours / bucketHours)
ForecastSteps == (ForecastHours + BucketHours - 1) \div BucketHours

\* Math.sqrt(step) for each forecast step
SqrtOfStep == [step \in 1..ForecastSteps |-> FSqrt(FP(step))]

\* 1.96 * Math.sqrt(step)
ConfidenceMultiplier(step) == FMul((196 * Scale) \div 100, SqrtOfStep[step])

\* a lower bound without the floor at 0
LowerBoundUnfloored(forecastValue, band) == forecastValue - band

\* Math.max(0, forecastValue - standardError * confidenceMultiplier)
LowerBound(forecastValue, band) == Max(0, forecastValue - band)

\* the first prediction stamped with the last input bucket: (step - 1) widths
PredictionFromLastBucket(level, trend, standardError, lastTimestamp, step) ==
    LET forecastValue == Max(0, level + trend * step)
        band          == FMul(standardError, ConfidenceMultiplier(step))
    IN  [timestamp  |-> lastTimestamp + (step - 1) * BucketHours * 60,
         predicted  |-> Round2(forecastValue),
         upper      |-> Round2(forecastValue + band),
         lower      |-> Round2(LowerBound(forecastValue, band)),
         confidence |-> Max(50, 95 - step * 5)]

Prediction(level, trend, standardError, lastTimestamp, step) ==
    LET forecastValue == Max(0, level + trend * step)
        band          == FMul(standardError, ConfidenceMultiplier(step))
    IN  [timestamp  |-> lastTimestamp + step * BucketHours * 60,
         predicted  |-> Round2(forecastValue),
         upper      |-> Round2(forecastValue + band),
         lower      |-> Round2(LowerBound(forecastValue, band)),
         confidence |-> Max(50, 95 - step * 5)]

TrendDirection(trend) ==
    IF trend > Scale \div 2 THEN "rising"
    ELSE IF trend < -(Scale \div 2) THEN "falling"
    ELSE "stable"

\* a guard that lets series of 3 points through
InsufficientDataBelow3(series) == Len(series) < 3

\* if (series.length < 4)
InsufficientData(series) == Len(series) < 4

\* series: a sequence of [timestamp, value] with integer values
Forecast(series) ==
    IF InsufficientData(series)
    THEN [predictions |-> <<>>,
          confidence |-> [upper |-> <<>>, lower |-> <<>>],
          trend |-> "insufficient_data",
          smoothedHistory |-> <<>>]
    ELSE LET values == [i \in 1..Len(series) |-> FP(series[i].value)]
             h      == HoltSmoothing(values)
             se     == ComputeResiduals(values, h.smoothed).standardError
         IN  [predictions |->
                 [step \in 1..ForecastSteps |->
                     Prediction(h.level, h.trend, se, Last(series).timestamp, step)],
              trend |-> TrendDirection(h.trend),
              trendValue |-> Round2(h.trend),
              currentLevel |-> Round2(h.level),
              standardError |-> Round2(se),
              smoothedHistory |->
                 [i \in 1..Len(series) |->
                     [timestamp |-> series[i].timestamp,
                      value |-> Round2(h.smoothed[i])]]]

Diseases == <<"Cholera", "Typhoid", "Dengue", "Malaria">>

\* [...new Set(aggregated.flatMap(a => Object.keys(a.byRegion)))], as a set
RegionIdsOf(aggregated) ==
    UNION {DOMAIN aggregated[i].byRegion : i \in 1..Len(aggregated)}

TotalSeries(aggregated) ==
    [i \in 1..Len(aggregated) |->
        [timestamp |-> aggregated[i].timestamp, value |-> aggregated[i].total]]

DiseaseSeries(aggregated, disease) ==
    [i \in 1..Len(aggregated) |->
        [timestamp |-> aggregated[i].timestamp,
         value |-> Get(aggregated[i].byDisease, disease)]]

RegionSeries(aggregated, regionId) ==
    [i \in 1..Len(aggregated) |->
        [timestamp |-> aggregated[i].timestamp,
         value |-> Get(aggregated[i].byRegion, regionId)]]

\* now: the wall clock read by new Date()
ForecastAll(aggregated, now) ==
    [overall |-> Forecast(TotalSeries(aggregated)),
     byDisease |-> [d \in {Diseases[i] : i \in 1..Len(Diseases)} |->
                       Forecast(DiseaseSeries(aggregated, d))],
     byRegion |-> [g \in RegionIdsOf(aggregated) |->
                       Forecast(RegionSeries(aggregated, g))],
     generatedAt |-> now,
     forecastHorizon |-> ForecastHours]

----------------------------------------------------------------------------
(* AnomalyDetector (src/unnamed/part_002) *)

\* new AnomalyDetector({ zThreshold: 2.0, windowSize: 20 })
ZThreshold == FP(2)
WindowSize == 20

\* values are fixed-point
Stats(values) ==
    LET n        == Len(values)
        mean     == IDiv(SumSeq(values), n)
        variance == IDiv(SumSeq([i \in 1..n |-> FMul(values[i] - mean, values[i] - mean)]), n)
    IN  IF n = 0 THEN [mean |-> 0, std |-> 0]
        ELSE [mean |-> mean, std |-> FSqrt(variance)]

\* a window that leaves out the oldest bucket: slice(windowStart + 1, i + 1)
DetectAtShortWindow(series, i) ==
    LET windowStart  == Max(1, i - WindowSize + 1)
        windowValues == [k \in 1..(i - windowStart + 1) |->
                            FP(series[windowStart + k - 1].value)]
        st           == Stats(windowValues)
        zScore       == IF st.std = 0 THEN 0
                        ELSE FDiv(FP(series[i].value) - st.mean, st.std)
    IN  [timestamp |-> series[i].timestamp,
         value |-> series[i].value,
         mean |-> Round2(st.mean),
         std |-> Round2(st.std),
         zScore |-> Round2(zScore),
         isAnomaly |-> Abs(zScore) > ZThreshold]

DetectAt(series, i) ==
    LET windowStart  == Max(1, i - WindowSize)
        windowValues == [k \in 1..(i - windowStart + 1) |->
                            FP(series[windowStart + k - 1].value)]
        st           == Stats(windowValues)
        zScore       == IF st.std = 0 THEN 0
                        ELSE FDiv(FP(series[i].value) - st.mean, st.std)
    IN  [timestamp |-> series[i].timestamp,
         value |-> series[i].value,
         mean |-> Round2(st.mean),
         std |-> Round2(st.std),
         zScore |-> Round2(zScore),
         isAnomaly |-> Abs(zScore) > ZThreshold]

DetectInSeries(series) == [i \in 1..Len(series) |-> DetectAt(series, i)]

DetectAdmissionAnomalies(aggregated) ==
    [overall |-> DetectInSeries(TotalSeries(aggregated)),
     byDisease |-> [d \in {Diseases[i] : i \in 1..Len(Diseases)} |->
                       DetectInSeries(DiseaseSeries(aggregated, d))],
     byRegion |-> [g \in RegionIdsOf(aggregated) |->
                       DetectInSeries(RegionSeries(aggregated, g))]]

\* Math.round(x * 1000) / 1000, in thousandths
Round3(x) == (2 * 1000 * x + Scale) \div (2 * Scale)

Significance(correlation) ==
    LET absCorr == Abs(correlation)
    IN  IF absCorr > (7 * Scale) \div 10 THEN "strong"
        ELSE IF absCorr > (4 * Scale) \div 10 THEN "moderate"
        ELSE IF absCorr > (2 * Scale) \div 10 THEN "weak"
        ELSE "negligible"

\* statistics of the whole series in place of the first n values
CorrelateUntruncatedStats(seriesA, seriesB) ==
    LET n      == Min(Len(seriesA), Len(seriesB))
        a      == [i \in 1..n |-> seriesA[i].value]
        b      == [i \in 1..n |-> seriesB[i].value]
        statsA == Stats([i \in 1..Len(seriesA) |-> seriesA[i].value])
        statsB == Stats([i \in 1..Len(seriesB) |-> seriesB[i].value])
        sumProduct == SumSeq([i \in 1..n |-> FMul(a[i] - statsA.mean, b[i] - statsB.mean)])
        correlation == FDiv(sumProduct, n * FMul(statsA.std, statsB.std))
    IN  IF n < 3 THEN [correlation |-> 0, significance |-> "insufficient data"]
        ELSE IF statsA.std = 0 \/ statsB.std = 0
             THEN [correlation |-> 0, significance |-> "no variance"]
        ELSE [correlation |-> Round3(correlation),
              significance |-> Significance(correlation)]

\* series values are fixed-point
Correlate(seriesA, seriesB) ==
    LET n      == Min(Len(seriesA), Len(seriesB))
        a      == [i \in 1..n |-> seriesA[i].value]
        b      == [i \in 1..n |-> seriesB[i].value]
        statsA == Stats(a)
        statsB == Stats(b)
        sumProduct == SumSeq([i \in 1..n |-> FMul(a[i] - statsA.mean, b[i] - statsB.mean)])
        correlation == FDiv(sumProduct, n * FMul(statsA.std, statsB.std))
    IN  IF n < 3 THEN [correlation |-> 0, significance |-> "insufficient data"]
        ELSE IF statsA.std = 0 \/ statsB.std = 0
             THEN [correlation |-> 0, significance |-> "no variance"]
        ELSE [correlation |-> Round3(correlation),
              significance |-> Significance(correlation)]

\* the region keys of the buckets in order of first appearance:
\* [...new Set(admissionAgg.flatMap(a => Object.keys(a.byRegion)))]
RegionIdOrder(aggregated) ==
    Distinct(Concat([i \in 1..Len(aggregated) |-> aggregated[i].regionKeys]), <<>>)

\* w.regionAverages[regionId]?.[metric] || 0
WaterMetricSeries(waterAggregates, regionId, metric) ==
    [i \in 1..Len(waterAggregates) |->
        [timestamp |-> waterAggregates[i].timestamp,
         value |-> IF regionId \in DOMAIN waterAggregates[i].regionAverages
                   THEN waterAggregates[i].regionAverages[regionId][metric]
                   ELSE 0]]

FixedSeries(series) ==
    [i \in 1..Len(series) |->
        [timestamp |-> series[i].timestamp, value |-> FP(series[i].value)]]

\* the (regionId, disease, metric) triples in the order of the three loops
CorrelationCases(aggregated) ==
    LET ids == RegionIdOrder(aggregated)
    IN  Concat([r \in 1..Len(ids) |->
            << <<ids[r], "Cholera", "avgTurbidity">>, <<ids[r], "Cholera", "avgColiform">>,
               <<ids[r], "Typhoid", "avgTurbidity">>, <<ids[r], "Typhoid", "avgColiform">> >>])

AnalyzeWaterDiseaseCorrelation(aggregated, waterAggregates) ==
    LET cases   == CorrelationCases(aggregated)
        results == [k \in 1..Len(cases) |->
                      LET c == Correlate(FixedSeries(DiseaseSeries(aggregated, cases[k][2])),
                                         WaterMetricSeries(waterAggregates, cases[k][1],
                                                           cases[k][3]))
                      IN  [regionId |-> cases[k][1], disease |-> cases[k][2],
                           waterMetric |-> cases[k][3],
                           correlation |-> c.correlation,
                           significance |-> c.significance]]
        kept    == SelectSeq(results,
                       LAMBDA r : r.significance # "negligible"
                                  /\ r.significance # "insufficient data")
    IN  SortByKeys(kept, [k \in 1..Len(kept) |-> -Abs(kept[k].correlation)])

----------------------------------------------------------------------------
(* regions (src/regions.js): population in persons, historicalRisk fixed-point *)

Region(n, name, population, risk100) ==
    [id |-> n, name |-> name, population |-> population,
     historicalRisk |-> Hundredths(risk100)]

Regions ==
    << Region("region-1", "Central District", 185000, 35),
       Region("region-2", "North Zone", 142000, 42),
       Region("region-3", "South Zone", 167000, 28),
       Region("region-4", "East Industrial", 98000, 55),
       Region("region-5", "West Residential", 210000, 20),
       Region("region-6", "Northeast Suburb", 76000, 48),
       Region("region-7", "Southwest Settlement", 120000, 62),
       Region("region-8", "Old Town", 155000, 50) >>

----------------------------------------------------------------------------
(* RiskClassifier (src/riskClassifier.js) *)

\* RISK_LEVELS[level].threshold, fixed-point
LevelThreshold(level) ==
    CASE level = "LOW"      -> (25 * Scale) \div 100
      [] level = "MODERATE" -> (50 * Scale) \div 100
      [] level = "HIGH"     -> (75 * Scale) \div 100
      [] level = "CRITICAL" -> FP(1)

LevelLabel(level) ==
    CASE level = "LOW"      -> "Low"
      [] level = "MODERATE" -> "Moderate"
      [] level = "HIGH"     -> "High"
      [] level = "CRITICAL" -> "Critical"

\* this.weights, fixed-point
Weights ==
    [admissionVelocity |-> (30 * Scale) \div 100,
     waterQuality      |-> (25 * Scale) \div 100,
     severityIndex     |-> (20 * Scale) \div 100,
     historicalRisk    |-> (10 * Scale) \div 100,
     populationDensity |-> (8 * Scale) \div 100,
     trendScore        |-> (7 * Scale) \div 100]

RegionCount(buckets, regionId) ==
    SumSeq([i \in 1..Len(buckets) |-> Get(buckets[i].byRegion, regionId)])

\* velocity / 3 without the clamp to [0, 1]
NormalizeVelocityUnclamped(velocity) == IDiv(velocity, 3)

\* Math.min(1, Math.max(0, velocity / 3))
NormalizeVelocity(velocity) == Min(FP(1), Max(0, IDiv(velocity, 3)))

\* a previous day that overlaps the last one: slice(-8) in place of slice(-8, -4)
AdmissionVelocityOverlapping(recentAdmissions, regionId) ==
    LET last24h     == SliceLast(recentAdmissions, 4)
        prev24h     == SliceLast(recentAdmissions, 8)
        recentCount == RegionCount(last24h, regionId)
        prevSum     == RegionCount(prev24h, regionId)
        prevCount   == IF prevSum = 0 THEN 1 ELSE prevSum
        velocity    == IDiv(FP(recentCount - prevCount), prevCount)
    IN  NormalizeVelocity(velocity)

\* velocity of the admissions of all regions together
AdmissionVelocityAllRegions(recentAdmissions, regionId) ==
    LET last24h     == SliceLast(recentAdmissions, 4)
        prev24h     == SliceBack(recentAdmissions, 8, 4)
        recentCount == SumSeq([i \in 1..Len(last24h) |-> last24h[i].total])
        prevSum     == SumSeq([i \in 1..Len(prev24h) |-> prev24h[i].total])
        prevCount   == IF prevSum = 0 THEN 1 ELSE prevSum
        velocity    == IDiv(FP(recentCount - prevCount), prevCount)
    IN  NormalizeVelocity(velocity)

AdmissionVelocity(recentAdmissions, regionId) ==
    LET last24h     == SliceLast(recentAdmissions, 4)
        prev24h     == SliceBack(recentAdmissions, 8, 4)
        recentCount == RegionCount(last24h, regionId)
        prevSum     == RegionCount(prev24h, regionId)
        prevCount   == IF prevSum = 0 THEN 1 ELSE prevSum
        velocity    == IDiv(FP(recentCount - prevCount), prevCount)
    IN  NormalizeVelocity(velocity)

\* every period averaged, in place of the last three: no slice(-3)
WaterQualityScoreAllPeriods(waterAggregates, regionId) ==
    LET recentWater == waterAggregates
        scores == [i \in 1..Len(recentWater) |->
                     IF regionId \notin DOMAIN recentWater[i].regionAverages
                     THEN 50
                     ELSE LET data == recentWater[i].regionAverages[regionId]
                          IN  ComputeWQI([pH |-> data.avgPH,
                                          turbidity |-> data.avgTurbidity,
                                          coliformCount |-> data.avgColiform,
                                          dissolvedOxygen |-> data.avgDO,
                                          chlorineResidual |-> Scale \div 2])]
        avgWQI == IDiv(FP(SumSeq(scores)), Len(scores))
    IN  IF Len(recentWater) = 0 THEN Scale \div 2
        ELSE FP(1) - IDiv(avgWQI, 100)

WaterQualityScore(waterAggregates, regionId) ==
    LET recentWater == SliceLast(waterAggregates, 3)
        scores == [i \in 1..Len(recentWater) |->
                     IF regionId \notin DOMAIN recentWater[i].regionAverages
                     THEN 50
                     ELSE LET data == recentWater[i].regionAverages[regionId]
                          IN  ComputeWQI([pH |-> data.avgPH,
                                          turbidity |-> data.avgTurbidity,
                                          coliformCount |-> data.avgColiform,
                                          dissolvedOxygen |-> data.avgDO,
                                          chlorineResidual |-> Scale \div 2])]
        avgWQI == IDiv(FP(SumSeq(scores)), Len(scores))
    IN  IF Len(recentWater) = 0 THEN Scale \div 2
        ELSE FP(1) - IDiv(avgWQI, 100)

SeverityIndex(recentAdmissions) ==
    LET last48h     == SliceLast(recentAdmissions, 8)
        totalSevere == SumSeq([i \in 1..Len(last48h) |-> Get(last48h[i].bySeverity, "Severe")])
        totalSum    == SumSeq([i \in 1..Len(last48h) |-> last48h[i].total])
        total       == IF totalSum = 0 THEN 1 ELSE totalSum
    IN  Min(FP(1), IDiv(FP(totalSevere), total) * 3)

NoForecast == [trend |-> "none"]

\* a falling trend taken with its sign: 0.4 - trendValue * 0.1
TrendScoreSigned(forecast) ==
    IF forecast = NoForecast \/ forecast.trend = "insufficient_data" THEN Scale \div 2
    ELSE IF forecast.trend = "rising"
         THEN Min(FP(1), (6 * Scale) \div 10
                         + FMul(Hundredths(forecast.trendValue), Scale \div 10))
    ELSE IF forecast.trend = "falling"
         THEN Max(0, (4 * Scale) \div 10
                     - FMul(Hundredths(forecast.trendValue), Scale \div 10))
    ELSE Scale \div 2

\* forecast: a ForecastResult, or NoForecast for undefined
TrendScore(forecast) ==
    IF forecast = NoForecast \/ forecast.trend = "insufficient_data" THEN Scale \div 2
    ELSE IF forecast.trend = "rising"
         THEN Min(FP(1), (6 * Scale) \div 10
                         + FMul(Hundredths(forecast.trendValue), Scale \div 10))
    ELSE IF forecast.trend = "falling"
         THEN Max(0, (4 * Scale) \div 10
                     - FMul(Abs(Hundredths(forecast.trendValue)), Scale \div 10))
    ELSE Scale \div 2

\* Math.min(1, region.population / 200000)
PopulationDensity(region) == Min(FP(1), IDiv(region.population, 200000 \div Scale))

Factors(region, admissions_, water, forecast) ==
    [admissionVelocity |-> AdmissionVelocity(admissions_, region.id),
     waterQuality      |-> WaterQualityScore(water, region.id),
     severityIndex     |-> SeverityIndex(admissions_),
     historicalRisk    |-> region.historicalRisk,
     populationDensity |-> PopulationDensity(region),
     trendScore        |-> TrendScore(forecast)]

FactorNames ==
    {"admissionVelocity", "waterQuality", "severityIndex", "historicalRisk",
     "populationDensity", "trendScore"}

\* the weighted composite score, before any rounding of the record's fields
RiskScore(f) ==
    FMul(f.admissionVelocity, Weights.admissionVelocity)
    + FMul(f.waterQuality, Weights.waterQuality)
    + FMul(f.severityIndex, Weights.severityIndex)
    + FMul(f.historicalRisk, Weights.historicalRisk)
    + FMul(f.populationDensity, Weights.populationDensity)
    + FMul(f.trendScore, Weights.trendScore)

\* tiers with exclusive cut points
RiskLevelStrict(riskScore) ==
    IF riskScore > FMul(LevelThreshold("CRITICAL"), (75 * Scale) \div 100) THEN "CRITICAL"
    ELSE IF riskScore > FMul(LevelThreshold("HIGH"), (65 * Scale) \div 100) THEN "HIGH"
    ELSE IF riskScore > FMul(LevelThreshold("MODERATE"), (55 * Scale) \div 100) THEN "MODERATE"
    ELSE "LOW"

RiskLevel(riskScore) ==
    IF riskScore >= FMul(LevelThreshold("CRITICAL"), (75 * Scale) \div 100) THEN "CRITICAL"
    ELSE IF riskScore >= FMul(LevelThreshold("HIGH"), (65 * Scale) \div 100) THEN "HIGH"
    ELSE IF riskScore >= FMul(LevelThreshold("MODERATE"), (55 * Scale) \div 100) THEN "MODERATE"
    ELSE "LOW"

ClassifyRegion(region, admissions_, water, forecast) ==
    LET f         == Factors(region, admissions_, water, forecast)
        riskScore == RiskScore(f)
        riskLevel == RiskLevel(riskScore)
    IN  [regionId |-> region.id,
         regionName |-> region.name,
         riskScore |-> Round2(riskScore),
         riskLevel |-> riskLevel,
         riskInfo |-> [label |-> LevelLabel(riskLevel),
                       threshold |-> LevelThreshold(riskLevel)],
         factors |-> [n \in FactorNames |->
                         [value |-> Round2(f[n]), weight |-> Weights[n]]],
         population |-> region.population]

\* forecasts?.byRegion?.[region.id]
ForecastOf(forecasts_, regionId) ==
    IF "byRegion" \in DOMAIN forecasts_ /\ regionId \in DOMAIN forecasts_.byRegion
    THEN forecasts_.byRegion[regionId]
    ELSE NoForecast

\* the comparator (a, b) => a.riskScore - b.riskScore
RiskSortKeyAscending(result) == result.riskScore

\* the comparator (a, b) => b.riskScore - a.riskScore orders by this key
RiskSortKey(result) == -result.riskScore

ClassifyAll(regions, admissions_, water, forecasts_) ==
    LET results == [i \in 1..Len(regions) |->
                      ClassifyRegion(regions[i], admissions_, water,
                                     ForecastOf(forecasts_, regions[i].id))]
    IN  SortByKeys(results, [i \in 1..Len(results) |-> RiskSortKey(results[i])])

RiskAlert(rc, now) ==
    IF rc.riskLevel = "CRITICAL"
    THEN <<[id |-> <<"ALERT-CRIT", rc.regionId>>, type |-> "CRITICAL_RISK",
            severity |-> "critical", timestamp |-> now,
            message |-> <<"immediate action required", rc.riskScore>>,
            regionId |-> rc.regionId, regionName |-> rc.regionName,
            riskScore |-> rc.riskScore]>>
    ELSE IF rc.riskLevel = "HIGH"
    THEN <<[id |-> <<"ALERT-HIGH", rc.regionId>>, type |-> "HIGH_RISK",
            severity |-> "high", timestamp |-> now,
            message |-> <<"elevated disease activity", rc.riskScore>>,
            regionId |-> rc.regionId, regionName |-> rc.regionName,
            riskScore |-> rc.riskScore]>>
    ELSE <<>>

\* zScore is the sample's rounded z-score, in hundredths
AnomalyAlert(anomaly) ==
    [id |-> <<"ALERT-ANOM", anomaly.timestamp>>, type |-> "ANOMALY_DETECTED",
     severity |-> IF Abs(anomaly.zScore) > 300 THEN "critical" ELSE "high",
     timestamp |-> anomaly.timestamp,
     message |-> <<"unusual admission count", anomaly.value, anomaly.zScore,
                   anomaly.mean, anomaly.std>>,
     zScore |-> anomaly.zScore, value |-> anomaly.value]

DiseaseAlert(disease, anomaly) ==
    [id |-> <<"ALERT-DIS", disease, anomaly.timestamp>>, type |-> "DISEASE_SPIKE",
     severity |-> "high", timestamp |-> anomaly.timestamp,
     message |-> <<"admissions spiked", disease, anomaly.value, anomaly.zScore>>,
     disease |-> disease, zScore |-> anomaly.zScore, value |-> anomaly.value]

Flagged(samples) == SelectSeq(samples, LAMBDA a : a.isAnomaly)

\* severityOrder[severity]; undefined for any other severity
SeverityOrder == [critical |-> 0, high |-> 1, moderate |-> 2, low |-> 3]

\* (severityOrder[severity] || 3): 0 and undefined are both falsy
SeverityRank(severity) ==
    IF severity \in DOMAIN SeverityOrder /\ SeverityOrder[severity] # 0
    THEN SeverityOrder[severity]
    ELSE 3

\* slice(0, 5) in place of slice(-5)
RecentOverallFirstFive(anomalies_) ==
    IF "overall" \in DOMAIN anomalies_
    THEN SubSeq(Flagged(anomalies_.overall), 1, Min(5, Len(Flagged(anomalies_.overall))))
    ELSE <<>>

\* anomalies.overall.filter(a => a.isAnomaly).slice(-5)
RecentOverall(anomalies_) ==
    IF "overall" \in DOMAIN anomalies_ THEN SliceLast(Flagged(anomalies_.overall), 5)
    ELSE <<>>

\* data.filter(d => d.isAnomaly).slice(-2)
RecentDisease(data) == SliceLast(Flagged(data), 2)

\* Object.entries(anomalies.byDisease): the diseases in insertion order
DiseaseKeys(anomalies_) ==
    IF "byDisease" \in DOMAIN anomalies_
    THEN SelectSeq(Diseases, LAMBDA d : d \in DOMAIN anomalies_.byDisease)
    ELSE <<>>

UnsortedAlerts(classifications, anomalies_, now) ==
    LET risk    == Concat([i \in 1..Len(classifications) |->
                              RiskAlert(classifications[i], now)])
        recent  == RecentOverall(anomalies_)
        overall == [i \in 1..Len(recent) |-> AnomalyAlert(recent[i])]
        keys    == DiseaseKeys(anomalies_)
        disease == Concat([k \in 1..Len(keys) |->
                              LET spikes == RecentDisease(anomalies_.byDisease[keys[k]])
                              IN  [i \in 1..Len(spikes) |-> DiseaseAlert(keys[k], spikes[i])]])
    IN  risk \o overall \o disease

GenerateAlerts(classifications, anomalies_, now) ==
    LET unsorted == UnsortedAlerts(classifications, anomalies_, now)
    IN  SortByKeys(unsorted, [i \in 1..Len(unsorted) |-> SeverityRank(unsorted[i].severity)])

----------------------------------------------------------------------------
(* The route module's state before any data file exists *)

Missing == "missing"

ServerEmpty ==
    /\ admFile = Missing
    /\ waterFile = Missing
    /\ admissions = <<>>
    /\ waterQuality = <<>>
    /\ admissionAgg = <<>>
    /\ waterAgg = <<>>
    /\ anomalies = <<>>
    /\ forecasts = <<>>
    /\ riskClassifications = <<>>
    /\ alerts = <<>>
    /\ correlations = <<>>
    /\ response = <<>>
    /\ clock = 0

----------------------------------------------------------------------------
(* Forecaster.forecast applied to every short series of small counts *)

MaxLen == 5
MaxVal == 3

\* consecutive buckets, BucketHours apart, from the epoch
SeriesOf(values) ==
    [i \in 1..Len(values) |->
        [timestamp |-> (i - 1) * BucketHours * 60, value |-> values[i]]]

ValueSeqs == UNION {[1..n -> 0..MaxVal] : n \in 0..MaxLen}

ForecastInit ==
    /\ ServerEmpty
    /\ op = "idle"
    /\ args \in {[series |-> SeriesOf(v)] : v \in ValueSeqs}
    /\ ret = <<>>

CallForecast ==
    /\ op = "idle"
    /\ op' = "forecast"
    /\ ret' = Forecast(args.series)
    /\ UNCHANGED <<args, server>>

ForecastNext == CallForecast

SpecForecast == ForecastInit /\ [][ForecastNext]_vars

\* C8: for every series of length 0, 1, 2 or 3, forecast() returns empty
\* predictions, an empty smoothed history and trend 'insufficient_data'.
ShortSeriesInsufficient ==
    (op = "forecast" /\ Len(args.series) < 4) =>
        /\ ret.predictions = <<>>
        /\ ret.smoothedHistory = <<>>
        /\ ret.trend = "insufficient_data"

ShortSeriesForecasted ==
    /\ op = "forecast"
    /\ Len(args.series) = 3
    /\ ret.trend = "insufficient_data"

IsConstant(series) == \A i \in 1..Len(series) : series[i].value = series[1].value

\* C9: a constant series of v >= 0 repeated n >= 4 times has trend 'stable',
\* standard error 0 and every prediction with predicted = upper = lower = v.
ConstantSeriesFlat ==
    (op = "forecast" /\ Len(args.series) >= 4 /\ IsConstant(args.series)) =>
        /\ ret.trend = "stable"
        /\ ret.standardError = 0
        /\ Len(ret.predictions) > 0
        /\ \A k \in 1..Len(ret.predictions) :
              LET p == ret.predictions[k]
                  v == 100 * args.series[1].value
              IN  p.predicted = v /\ p.upper = v /\ p.lower = v

ConstantSeriesForecasted ==
    /\ op = "forecast"
    /\ Len(args.series) >= 4
    /\ IsConstant(args.series)
    /\ args.series[1].value > 0
    /\ Len(ret.predictions) = ForecastSteps

\* C10: every prediction of a series of length >= 4 satisfies
\* 0 <= lower <= predicted <= upper.
PredictionBoundsOrdered ==
    (op = "forecast" /\ Len(args.series) >= 4) =>
        \A k \in 1..Len(ret.predictions) :
            LET p == ret.predictions[k]
            IN  0 <= p.lower /\ p.lower <= p.predicted /\ p.predicted <= p.upper

\* a falling series whose band reaches below zero and is floored there
FallingSeriesForecasted ==
    /\ op = "forecast"
    /\ Len(args.series) >= 4
    /\ ret.trend = "falling"
    /\ ret.standardError > 0
    /\ \E k \in 1..Len(ret.predictions) :
          LET p == ret.predictions[k]
          IN  p.lower = 0 /\ p.predicted > 0 /\ p.upper > p.predicted

----------------------------------------------------------------------------
(* Raw records: what the data files hold *)

\* region-1 admits count(i) Cholera patients in bucket i and region-2 one
\* Typhoid patient; the first `severe` admissions of a bucket are Severe.
\* Admissions of a bucket are spread 7 minutes apart from its start.
BucketAdmissions(i, count, severe) ==
    [j \in 1..(count + 1) |->
        [timestamp  |-> (i - 1) * BucketHours * 60 + 7 * j,
         disease    |-> IF j <= count THEN "Cholera" ELSE "Typhoid",
         severity   |-> IF j <= severe THEN "Severe" ELSE "Mild",
         regionId   |-> IF j <= count THEN "region-1" ELSE "region-2",
         patientAge |-> 20 + j,
         isAnomaly  |-> FALSE]]

\* n buckets: `prior` admissions per bucket, then `recent` in the last four
AdmissionRecords(n, prior, recent, severe) ==
    Concat([i \in 1..n |->
               BucketAdmissions(i, IF i <= n - 4 THEN prior ELSE recent, severe)])

\* one sample a day for region-1; a dirty day has acid, turbid, contaminated water
WaterSample(day, dirty) ==
    [timestamp       |-> (day - 1) * MinutesPerDay + 8 * 60 + 30,
     regionId        |-> "region-1",
     pH              |-> IF dirty THEN (52 * Scale) \div 10 ELSE (72 * Scale) \div 10,
     turbidity       |-> IF dirty THEN FP(25) ELSE FP(2),
     coliformCount   |-> IF dirty THEN FP(300) ELSE FP(5),
     dissolvedOxygen |-> IF dirty THEN FP(3) ELSE FP(7),
     isAnomaly       |-> dirty]

\* `days` days of samples, the last `dirtyDays` of them dirty
WaterRecords(days, dirtyDays) ==
    [d \in 1..days |-> WaterSample(d, d > days - dirtyDays)]

----------------------------------------------------------------------------
(* RiskClassifier applied to aggregates of small data sets.  The data sets   *)
(* sit on both sides of every window the classifier cuts: 4 and 8 admission *)
(* buckets, 3 water periods.                                                *)

MaxCount == 3

BucketCounts == {0, 1, 3, 4, 5, 7, 8, 9}
DayCounts == {0, 1, 3, 4}

AdmissionAggs ==
    {AggregateAdmissions(AdmissionRecords(n, a, b, IF sv THEN 1 ELSE 0), BucketHours) :
        n \in BucketCounts, a \in 0..MaxCount, b \in 0..MaxCount, sv \in BOOLEAN}

WaterAggs ==
    {AggregateWaterQuality(WaterRecords(d, IF dirty THEN 1 ELSE 0), 24) :
        d \in DayCounts, dirty \in BOOLEAN}

\* regions that reach every prior and density, with and without data
SampleRegions ==
    {Region("region-1", "Central District", p, h) :
        p \in {0, 100000, 400000}, h \in {0, 50, 100}}
    \cup {Regions[2], Regions[5]}

\* the forecast classifyAll hands to classifyRegion for this region
RegionForecast(aggregated, regionId) ==
    IF regionId \in RegionIdsOf(aggregated)
    THEN Forecast(RegionSeries(aggregated, regionId))
    ELSE NoForecast

ClassifyRegionInit ==
    /\ ServerEmpty
    /\ op = "idle"
    /\ \E region \in SampleRegions, agg \in AdmissionAggs, water \in WaterAggs :
          args = [region |-> region, admissionAgg |-> agg, waterAgg |-> water,
                  forecast |-> RegionForecast(agg, region.id)]
    /\ ret = <<>>

CallClassifyRegion ==
    /\ op = "idle"
    /\ op' = "classifyRegion"
    /\ ret' = ClassifyRegion(args.region, args.admissionAgg, args.waterAgg, args.forecast)
    /\ UNCHANGED <<args, server>>

ClassifyRegionNext == CallClassifyRegion

SpecClassifyRegion == ClassifyRegionInit /\ [][ClassifyRegionNext]_vars

\* one day on which two regions report the same readings (WQI 43)
SharedSourceRecords ==
    [i \in 1..2 |->
        [timestamp       |-> 8 * 60 + 30 + i,
         regionId        |-> IF i = 1 THEN "region-1" ELSE "region-8",
         pH              |-> FP(7),
         turbidity       |-> FP(10),
         coliformCount   |-> FP(190),
         dissolvedOxygen |-> (375 * Scale) \div 100,
         isAnomaly       |-> FALSE]]

ClassifyInit ==
    /\ ServerEmpty
    /\ op = "idle"
    /\ \E agg \in AdmissionAggs,
          water \in WaterAggs \cup {AggregateWaterQuality(SharedSourceRecords, 24)} :
          args = [regions |-> Regions, admissionAgg |-> agg, waterAgg |-> water,
                  forecasts |-> ForecastAll(agg, 0)]
    /\ ret = <<>>

CallClassifyAll ==
    /\ op = "idle"
    /\ op' = "classifyAll"
    /\ ret' = ClassifyAll(args.regions, args.admissionAgg, args.waterAgg, args.forecasts)
    /\ UNCHANGED <<args, server>>

ClassifyNext == CallClassifyAll

SpecClassify == ClassifyInit /\ [][ClassifyNext]_vars

\* the factors and the composite score classifyRegion computed, unrounded
ArgFactors == Factors(args.region, args.admissionAgg, args.waterAgg, args.forecast)
ArgScore == RiskScore(ArgFactors)

InUnit(x) == 0 <= x /\ x <= Scale

\* C5: for a region with historicalRisk in [0,1] and population >= 0, each of
\* the six factors of classifyRegion and the composite riskScore lie in [0,1].
FactorsAndScoreInUnit ==
    (/\ op = "classifyRegion"
     /\ InUnit(args.region.historicalRisk)
     /\ args.region.population >= 0) =>
        /\ \A n \in FactorNames :
              /\ InUnit(ArgFactors[n])
              /\ 0 <= ret.factors[n].value /\ ret.factors[n].value <= 100
        /\ InUnit(ArgScore)
        /\ 0 <= ret.riskScore /\ ret.riskScore <= 100

\* a region whose velocity and density are both cut down to 1
ClampedFactorsClassified ==
    /\ op = "classifyRegion"
    /\ AdmissionVelocity(args.admissionAgg, args.region.id) = Scale
    /\ RegionCount(SliceLast(args.admissionAgg, 4), args.region.id) > 4
    /\ args.region.population > 200000
    /\ ret.factors["populationDensity"].value = 100
    /\ ret.factors["admissionVelocity"].value = 100

\* x >= n / 10000 for a fixed-point x
AtLeast(x, n) == x * 10000 >= n * Scale

\* the tier the cut points 0.75, 0.4875 and 0.275 give a score
TierOfScore(x) ==
    IF AtLeast(x, 7500) THEN "CRITICAL"
    ELSE IF AtLeast(x, 4875) THEN "HIGH"
    ELSE IF AtLeast(x, 2750) THEN "MODERATE"
    ELSE "LOW"

\* C6 as stated: the tier follows the composite score with inclusive cut
\* points 0.75, 0.4875 and 0.275, and a region reported with riskScore 0.75
\* is Critical.
TierFollowsReportedScore ==
    op = "classifyRegion" =>
        /\ ret.riskLevel = TierOfScore(ArgScore)
        /\ (ret.riskScore = 75 => ret.riskLevel = "CRITICAL")

\* C6 amended: the tier follows the unrounded composite score with inclusive
\* cut points 0.75, 0.4875 and 0.275; the reported riskScore is that score
\* rounded to two decimals, so a region reported with 0.75 is Critical or High.
TierFollowsUnroundedScore ==
    op = "classifyRegion" =>
        /\ ret.riskLevel = TierOfScore(ArgScore)
        /\ ret.riskScore = Round2(ArgScore)
        /\ (ret.riskScore = 75 => ret.riskLevel \in {"CRITICAL", "HIGH"})

\* a score of exactly 0.75, on the Critical cut point
ScoreOnCriticalCut ==
    /\ op = "classifyRegion"
    /\ ArgScore * 100 = 75 * Scale
    /\ ret.riskLevel = "CRITICAL"

\* C7: classifyAll returns exactly one classification per entry of the region
\* list, also for regions without data, sorted by non-increasing riskScore.
OnePerRegionSortedByScore ==
    op = "classifyAll" =>
        /\ Len(ret) = Len(args.regions)
        /\ \A i \in 1..Len(args.regions) :
              Cardinality({k \in 1..Len(ret) : ret[k].regionId = args.regions[i].id}) = 1
        /\ \A k \in 1..(Len(ret) - 1) : ret[k].riskScore >= ret[k + 1].riskScore

\* the sort moved a region without any admission to the front
RegionsReordered ==
    /\ op = "classifyAll"
    /\ ret[1].regionId \notin RegionIdsOf(args.admissionAgg)
    /\ ret[1].regionId # args.regions[1].id
    /\ ret[1].riskScore > ret[Len(ret)].riskScore

----------------------------------------------------------------------------
(* RiskClassifier.generateAlerts applied to classifications of every tier   *)
(* and to anomaly samples of every flag pattern                              *)

MaxSamples == 6

Tiers == {"CRITICAL", "HIGH", "MODERATE", "LOW"}

\* a score inside the tier's range, in hundredths
TierScore(tier) ==
    CASE tier = "CRITICAL" -> 80
      [] tier = "HIGH"     -> 60
      [] tier = "MODERATE" -> 35
      [] tier = "LOW"      -> 10

\* the fields of a classification that generateAlerts reads
Classified(region, tier) ==
    [regionId |-> region.id, regionName |-> region.name,
     riskScore |-> TierScore(tier), riskLevel |-> tier]

\* classifications of the first one or two regions, as classifyAll sorts them
ClassificationLists ==
    {[i \in 1..Len(t) |-> Classified(Regions[i], t[i])] :
        t \in {u \in UNION {[1..k -> Tiers] : k \in 0..2} :
                  \A i \in 1..(Len(u) - 1) : TierScore(u[i]) >= TierScore(u[i + 1])}}

\* z-scores in hundredths: unremarkable, a spike, a deep dip
SampleZ == {0, 250, -350}

\* a detectInSeries sample of bucket i with rounded z-score z
Sample(i, z) ==
    [timestamp |-> (i - 1) * BucketHours * 60,
     value |-> 10 + z \div 50,
     mean |-> 1000,
     std |-> 200,
     zScore |-> z,
     isAnomaly |-> Abs(Hundredths(z)) > ZThreshold]

\* the overall series has the given z-scores; Cholera is flagged at every
\* flagged bucket, Typhoid at the spikes only, Dengue and Malaria never
AnomaliesOf(zs) ==
    [overall |-> [i \in 1..Len(zs) |-> Sample(i, zs[i])],
     byDisease |->
        [d \in {Diseases[i] : i \in 1..Len(Diseases)} |->
            [i \in 1..Len(zs) |->
                Sample(i, CASE d = "Cholera" -> IF zs[i] = 0 THEN 0 ELSE 250
                            [] d = "Typhoid" -> IF zs[i] = 250 THEN 250 ELSE 0
                            [] OTHER -> 0)]],
     byRegion |-> <<>>]

AnomalySets == {AnomaliesOf(zs) : zs \in UNION {[1..n -> SampleZ] : n \in 0..MaxSamples}}

AlertsInit ==
    /\ ServerEmpty
    /\ op = "idle"
    /\ \E cl \in ClassificationLists, an \in AnomalySets :
          args = [riskClassifications |-> cl, anomalies |-> an,
                  now |-> MaxSamples * BucketHours * 60]
    /\ ret = <<>>

CallGenerateAlerts ==
    /\ op = "idle"
    /\ op' = "generateAlerts"
    /\ ret' = GenerateAlerts(args.riskClassifications, args.anomalies, args.now)
    /\ UNCHANGED <<args, server>>

AlertsNext == CallGenerateAlerts

SpecAlerts == AlertsInit /\ [][AlertsNext]_vars

\* the rank the claim gives a severity
ClaimedRank(severity) ==
    CASE severity = "critical" -> 0
      [] severity = "high"     -> 1
      [] severity = "moderate" -> 2
      [] severity = "low"      -> 3
      [] OTHER                 -> 4

\* C3: in the list generateAlerts returns, severities are ordered critical,
\* high, moderate, low, unknown: no alert follows one of a later rank.
AlertsSortedBySeverity ==
    op = "generateAlerts" =>
        \A i \in 1..Len(ret) : \A j \in (i + 1)..Len(ret) :
            ClaimedRank(ret[i].severity) <= ClaimedRank(ret[j].severity)

\* the indices of the k latest flagged samples of a series
LatestFlagged(samples, k) ==
    LET flagged == {i \in 1..Len(samples) : samples[i].isAnomaly}
    IN  {i \in flagged : Cardinality({j \in flagged : j > i}) < k}

AlertsOfType(list, types) == SelectSeq(list, LAMBDA a : a.type \in types)

\* C4: one risk alert per CRITICAL and per HIGH classification and none for
\* the other tiers; the anomaly alerts are the (at most) 5 latest flagged
\* overall buckets; each disease's spike alerts are its (at most) 2 latest
\* flagged buckets; every severity is 'critical' or 'high'.
AlertsMatchTiersAndLatestAnomalies ==
    op = "generateAlerts" =>
        LET risk    == AlertsOfType(ret, {"CRITICAL_RISK", "HIGH_RISK"})
            overall == AlertsOfType(ret, {"ANOMALY_DETECTED"})
            spikes  == AlertsOfType(ret, {"DISEASE_SPIKE"})
            cls     == args.riskClassifications
        IN  /\ \A i \in 1..Len(cls) :
                  Len(SelectSeq(risk, LAMBDA a : a.regionId = cls[i].regionId))
                      = IF cls[i].riskLevel \in {"CRITICAL", "HIGH"} THEN 1 ELSE 0
            /\ Len(risk) = Cardinality({i \in 1..Len(cls) :
                                           cls[i].riskLevel \in {"CRITICAL", "HIGH"}})
            /\ \A k \in 1..Len(risk) :
                  \E i \in 1..Len(cls) :
                      /\ cls[i].regionId = risk[k].regionId
                      /\ risk[k].type = IF cls[i].riskLevel = "CRITICAL"
                                        THEN "CRITICAL_RISK" ELSE "HIGH_RISK"
            /\ Len(overall) <= 5
            /\ Len(overall) = Cardinality(LatestFlagged(args.anomalies.overall, 5))
            /\ {overall[k].timestamp : k \in 1..Len(overall)}
                  = {args.anomalies.overall[i].timestamp :
                        i \in LatestFlagged(args.anomalies.overall, 5)}
            /\ \A d \in DOMAIN args.anomalies.byDisease :
                  LET mine == SelectSeq(spikes, LAMBDA a : a.disease = d)
                      late == LatestFlagged(args.anomalies.byDisease[d], 2)
                  IN  /\ Len(mine) <= 2
                      /\ Len(mine) = Cardinality(late)
                      /\ {mine[k].timestamp : k \in 1..Len(mine)}
                            = {args.anomalies.byDisease[d][i].timestamp : i \in late}
            /\ Len(ret) = Len(risk) + Len(overall) + Len(spikes)
            /\ \A k \in 1..Len(ret) : ret[k].severity \in {"critical", "high"}

\* more flagged buckets than are reported, beside a Critical and a Moderate region
OlderAnomaliesDropped ==
    /\ op = "generateAlerts"
    /\ Cardinality({i \in 1..Len(args.anomalies.overall) :
                       args.anomalies.overall[i].isAnomaly}) > 5
    /\ Len(AlertsOfType(ret, {"ANOMALY_DETECTED"})) = 5
    /\ Len(AlertsOfType(ret, {"DISEASE_SPIKE"})) >= 3
    /\ Len(args.riskClassifications) = 2
    /\ args.riskClassifications[1].riskLevel = "CRITICAL"
    /\ args.riskClassifications[2].riskLevel = "MODERATE"
    /\ Len(AlertsOfType(ret, {"CRITICAL_RISK", "HIGH_RISK"})) = 1

----------------------------------------------------------------------------
(* The route module (src/dataPreprocessor.js from line 789) and the two     *)
(* data files it loads.  A file is Missing, Truncated (text that is not     *)
(* JSON, as a reader sees a file that is being written) or holds a named     *)
(* data set.                                                                 *)

Truncated == "truncated"

\* new Date(record.timestamp) of a timestamp that is no date
InvalidDate == -1

AdmissionData ==
    [quiet    |-> AdmissionRecords(4, 1, 1, 0),
     outbreak |-> AdmissionRecords(6, 1, 3, 1),
     undated  |-> <<[BucketAdmissions(1, 1, 0)[1] EXCEPT !.timestamp = InvalidDate]>>]

WaterData ==
    [clean   |-> WaterRecords(3, 0),
     fouled  |-> WaterRecords(3, 1),
     undated |-> <<[WaterSample(1, FALSE) EXCEPT !.timestamp = InvalidDate]>>]

MaxClock == 1

\* the server starts after the last record of every data set
StartupTime == 3 * MinutesPerDay
Times == StartupTime..(StartupTime + MaxClock)

\* && in place of ||
SourcesBothMissing(admF, waterF) == admF = Missing /\ waterF = Missing

\* !fs.existsSync(admFile) || !fs.existsSync(waterFile)
SourcesMissing(admF, waterF) == admF = Missing \/ waterF = Missing

\* JSON.parse(fs.readFileSync(file, 'utf8')) raises
ParseThrows(file) == file \in {Missing, Truncated}

\* bucketStart.toISOString() raises a RangeError on an invalid date
TimeBucketThrows(records) ==
    \E i \in 1..Len(records) : records[i].timestamp = InvalidDate

\* the module variables as one record
Published ==
    [admissions |-> admissions, waterQuality |-> waterQuality,
     admissionAgg |-> admissionAgg, waterAgg |-> waterAgg,
     anomalies |-> anomalies, forecasts |-> forecasts,
     riskClassifications |-> riskClassifications, alerts |-> alerts,
     correlations |-> correlations]

\* let admissions = []; ... let correlations = [];
Unloaded ==
    [admissions |-> <<>>, waterQuality |-> <<>>, admissionAgg |-> <<>>,
     waterAgg |-> <<>>, anomalies |-> <<>>, forecasts |-> <<>>,
     riskClassifications |-> <<>>, alerts |-> <<>>, correlations |-> <<>>]

\* the classifier run on the aggregates and forecasts that were published
\* before this run, and the alert generator on the anomalies of before
ProcessOnEarlierOutputs(s, now) ==
    LET agg    == AggregateAdmissions(s.admissions, 6)
        water  == AggregateWaterQuality(s.waterQuality, 24)
        anom   == DetectAdmissionAnomalies(agg)
        corr   == AnalyzeWaterDiseaseCorrelation(agg, water)
        fc     == ForecastAll(agg, now)
        rc     == ClassifyAll(Regions, s.admissionAgg, s.waterAgg, s.forecasts)
    IN  [s EXCEPT !.admissionAgg = agg, !.waterAgg = water, !.anomalies = anom,
                  !.correlations = corr, !.forecasts = fc,
                  !.riskClassifications = rc,
                  !.alerts = GenerateAlerts(rc, s.anomalies, now)]

\* the stages of loadAndProcess after both aggregations, on parsed records.
\* The result of detectWaterAnomalies is a local that nothing reads.
Process(s, now) ==
    LET agg    == AggregateAdmissions(s.admissions, 6)
        water  == AggregateWaterQuality(s.waterQuality, 24)
        anom   == DetectAdmissionAnomalies(agg)
        corr   == AnalyzeWaterDiseaseCorrelation(agg, water)
        fc     == ForecastAll(agg, now)
        rc     == ClassifyAll(Regions, agg, water, fc)
    IN  [s EXCEPT !.admissionAgg = agg, !.waterAgg = water, !.anomalies = anom,
                  !.correlations = corr, !.forecasts = fc,
                  !.riskClassifications = rc,
                  !.alerts = GenerateAlerts(rc, anom, now)]

\* every complete run over the data sets, computed once
Runs ==
    [a \in {"quiet", "outbreak"} |-> [w \in {"clean", "fouled"} |-> [now \in Times |->
        Process([Unloaded EXCEPT !.admissions = AdmissionData[a],
                                 !.waterQuality = WaterData[w]], now)]]]

Outcome(state, returned, thrown) ==
    [state |-> state, returned |-> returned, thrown |-> thrown]

\* loadAndProcess: each module variable is assigned as soon as its stage is
\* done, so a stage that raises leaves the earlier assignments in place
LoadAndProcess(old, admF, waterF, now) ==
    IF SourcesMissing(admF, waterF) THEN Outcome(old, FALSE, FALSE)
    ELSE IF ParseThrows(admF) THEN Outcome(old, FALSE, TRUE)
    ELSE LET s1 == [old EXCEPT !.admissions = AdmissionData[admF]]
         IN  IF ParseThrows(waterF) THEN Outcome(s1, FALSE, TRUE)
             ELSE LET s2 == [s1 EXCEPT !.waterQuality = WaterData[waterF]]
                  IN  IF TimeBucketThrows(s2.admissions) THEN Outcome(s2, FALSE, TRUE)
                      ELSE IF TimeBucketThrows(s2.waterQuality)
                           THEN Outcome([s2 EXCEPT !.admissionAgg =
                                            AggregateAdmissions(s2.admissions, 6)],
                                        FALSE, TRUE)
                      ELSE Outcome(Runs[admF][waterF][now], TRUE, FALSE)

\* the assignments of a run without the one to alerts
PublishWithoutAlerts(s) ==
    /\ admissions' = s.admissions
    /\ waterQuality' = s.waterQuality
    /\ admissionAgg' = s.admissionAgg
    /\ waterAgg' = s.waterAgg
    /\ anomalies' = s.anomalies
    /\ forecasts' = s.forecasts
    /\ riskClassifications' = s.riskClassifications
    /\ alerts' = alerts
    /\ correlations' = s.correlations

Publish(s) ==
    /\ admissions' = s.admissions
    /\ waterQuality' = s.waterQuality
    /\ admissionAgg' = s.admissionAgg
    /\ waterAgg' = s.waterAgg
    /\ anomalies' = s.anomalies
    /\ forecasts' = s.forecasts
    /\ riskClassifications' = s.riskClassifications
    /\ alerts' = s.alerts
    /\ correlations' = s.correlations

\* res.json({ success, message }); a handler that raises is answered by
\* Express with status 500
RefreshResponse(run) ==
    IF run.thrown THEN [status |-> 500, body |-> "Internal Server Error"]
    ELSE [status |-> 200,
          body |-> [success |-> run.returned,
                    message |-> IF run.returned THEN "Data refreshed"
                                ELSE "Data files not found"]]

\* the module is loaded: loadAndProcess() runs once; if it raises, the
\* process ends before it serves anything
Init ==
    /\ admFile \in DOMAIN AdmissionData \cup {Missing, Truncated}
    /\ waterFile \in DOMAIN WaterData \cup {Missing, Truncated}
    /\ clock = StartupTime
    /\ \E run \in {LoadAndProcess(Unloaded, admFile, waterFile, clock)} :
          /\ ~run.thrown
          /\ admissions = run.state.admissions
          /\ waterQuality = run.state.waterQuality
          /\ admissionAgg = run.state.admissionAgg
          /\ waterAgg = run.state.waterAgg
          /\ anomalies = run.state.anomalies
          /\ forecasts = run.state.forecasts
          /\ riskClassifications = run.state.riskClassifications
          /\ alerts = run.state.alerts
          /\ correlations = run.state.correlations
    /\ response = <<>>
    /\ op = "idle"
    /\ args = <<>>
    /\ ret = <<>>

\* router.post('/refresh')
PostRefresh ==
    \E run \in {LoadAndProcess(Published, admFile, waterFile, clock)} :
        /\ Publish(run.state)
        /\ response' = RefreshResponse(run)
        /\ UNCHANGED <<admFile, waterFile, clock, op, args, ret>>

\* the data generator, or anything else, rewrites the admissions file
WriteAdmFile ==
    /\ \E content \in DOMAIN AdmissionData \cup {Truncated} :
          admFile' = content
    /\ UNCHANGED <<waterFile, published, response, clock, op, args, ret>>

WriteWaterFile ==
    /\ \E content \in DOMAIN WaterData \cup {Truncated} :
          waterFile' = content
    /\ UNCHANGED <<admFile, published, response, clock, op, args, ret>>

\* a data file is deleted
RemoveAdmFile ==
    /\ admFile # Missing
    /\ admFile' = Missing
    /\ UNCHANGED <<waterFile, published, response, clock, op, args, ret>>

RemoveWaterFile ==
    /\ waterFile # Missing
    /\ waterFile' = Missing
    /\ UNCHANGED <<admFile, published, response, clock, op, args, ret>>

Tick ==
    /\ clock < StartupTime + MaxClock
    /\ clock' = clock + 1
    /\ UNCHANGED <<admFile, waterFile, published, response, op, args, ret>>

Next ==
    \/ PostRefresh
    \/ WriteAdmFile
    \/ WriteWaterFile
    \/ RemoveAdmFile
    \/ RemoveWaterFile
    \/ Tick

Spec == Init /\ [][Next]_vars

\* C1: if loadAndProcess raises at any stage after loading has begun, every
\* published variable still holds the value it had before the call.
FailedRefreshKeepsPublished ==
    [][(PostRefresh /\ response'.status = 500) => UNCHANGED published]_vars

Refused ==
    [status |-> 200,
     body |-> [success |-> FALSE, message |-> "Data files not found"]]

\* C2: when the admissions file or the water-quality file does not exist,
\* loadAndProcess returns false without touching a published variable, and
\* POST /refresh answers success = false with the reason.
MissingFileRefreshRefused ==
    [][(PostRefresh /\ (admFile = Missing \/ waterFile = Missing)) =>
          /\ UNCHANGED published
          /\ response' = Refused]_vars

\* a refresh was refused while a complete result set was published
RefusedWithDataPublished ==
    /\ response = Refused
    /\ admFile # Missing
    /\ waterFile = Missing
    /\ alerts # <<>>
    /\ riskClassifications # <<>>

----------------------------------------------------------------------------
(* AnomalyDetector applied to short series of small counts and to long      *)
(* series with one spike, on both sides of the detection window             *)

\* n buckets of `base` admissions, bucket p (if any) holding `spike`
SpikeSeries(n, p, base, spike) ==
    SeriesOf([i \in 1..n |-> IF i = p THEN spike ELSE base])

\* 8 six-hour buckets of one region's Cholera admissions: 10 in each of the
\* first seven, `final` in the last
OutbreakAggregate(final) ==
    [i \in 1..8 |->
        LET count == IF i = 8 THEN final ELSE 10
        IN  [timestamp |-> (i - 1) * BucketHours * 60,
             total |-> count,
             byDisease |-> [d \in {"Cholera"} |-> count],
             byRegion |-> [g \in {"region-1"} |-> count],
             regionKeys |-> <<"region-1">>,
             bySeverity |-> [v \in {"Mild", "Moderate", "Severe"} |->
                                IF v = "Mild" THEN count ELSE 0],
             avgAge |-> 30,
             anomalyCount |-> 0]]

DetectorInit ==
    /\ ServerEmpty
    /\ op = "idle"
    /\ \/ args \in {[series |-> SeriesOf(v)] : v \in ValueSeqs}
       \/ \E n \in {5, 8, WindowSize + 1, WindowSize + 2, WindowSize + 3} :
          \E p \in 0..n, base \in {0, 10} :
             args = [series |-> SpikeSeries(n, p, base, 50)]
       \/ \E final \in {10, 20, 50} :
             args = [series |-> DiseaseSeries(OutbreakAggregate(final), "Cholera"),
                     admissionAgg |-> OutbreakAggregate(final)]
       \/ \E a, b \in UNION {[1..n -> {0, 1, 3}] : n \in 0..4} :
             args = [seriesA |-> FixedSeries(SeriesOf(a)),
                     seriesB |-> FixedSeries(SeriesOf(b))]
       \/ \E a, b \in {<<0, 1, 2, 4>>, <<0, 2, 4, 1>>, <<4, 0, 3, 2>>, <<0, 1, 2, 3, 4>>,
                        <<0, 1, 3, 4, 2>>} :
             args = [seriesA |-> FixedSeries(SeriesOf(a)),
                     seriesB |-> FixedSeries(SeriesOf(b))]
       \/ \E n \in 3..6, prior \in 1..2, recent \in 1..3, days \in 2..4, dirty \in 0..2 :
             args = [aggregated |->
                         AggregateAdmissions(AdmissionRecords(n, prior, recent, 0), 6),
                     waterAgg |-> AggregateWaterQuality(WaterRecords(days, dirty), 24)]
    /\ ret = <<>>

CallDetectInSeries ==
    /\ op = "idle"
    /\ "series" \in DOMAIN args
    /\ op' = "detectInSeries"
    /\ ret' = DetectInSeries(args.series)
    /\ UNCHANGED <<args, server>>

CallCorrelate ==
    /\ op = "idle"
    /\ "seriesA" \in DOMAIN args
    /\ op' = "correlate"
    /\ ret' = Correlate(args.seriesA, args.seriesB)
    /\ UNCHANGED <<args, server>>

CallAnalyzeWaterDiseaseCorrelation ==
    /\ op = "idle"
    /\ "waterAgg" \in DOMAIN args
    /\ op' = "analyzeWaterDiseaseCorrelation"
    /\ ret' = AnalyzeWaterDiseaseCorrelation(args.aggregated, args.waterAgg)
    /\ UNCHANGED <<args, server>>

DetectorNext ==
    \/ CallDetectInSeries
    \/ CallCorrelate
    \/ CallAnalyzeWaterDiseaseCorrelation

SpecDetector == DetectorInit /\ [][DetectorNext]_vars

\* the fixed-point values of the buckets lo .. hi of a series
WindowValues(series, lo, hi) ==
    [k \in 1..(hi - lo + 1) |-> FP(series[lo + k - 1].value)]

\* C11: for each index i, detectInSeries takes mean and std over the buckets
\* max(0, i - windowSize) .. i inclusive, sets z = (value - mean) / std, or 0
\* when std is 0, and flags the bucket exactly when |z| > zThreshold; a bucket
\* whose window has zero variance is never flagged.
WindowedZScoreFlagsBeyondThreshold ==
    op = "detectInSeries" =>
        /\ Len(ret) = Len(args.series)
        /\ \A i \in 1..Len(ret) :
              LET st == Stats(WindowValues(args.series, Max(1, i - WindowSize), i))
                  z  == IF st.std = 0 THEN 0
                        ELSE FDiv(FP(args.series[i].value) - st.mean, st.std)
              IN  /\ ret[i].mean = Round2(st.mean)
                  /\ ret[i].std = Round2(st.std)
                  /\ ret[i].zScore = Round2(z)
                  /\ ret[i].isAnomaly = (Abs(z) > ZThreshold)
                  /\ st.std = 0 => (ret[i].zScore = 0 /\ ~ret[i].isAnomaly)

\* a series longer than the window: the spike in its first bucket has left
\* the window of the last bucket, which has zero variance; the spike itself
\* is not flagged, its single-value window having no variance either
SpikeLeftTheWindow ==
    /\ op = "detectInSeries"
    /\ Len(args.series) = WindowSize + 2
    /\ args.series[1].value = 50
    /\ ret[Len(ret)].std = 0
    /\ ret[Len(ret) - 1].std > 0
    /\ ~ret[Len(ret)].isAnomaly

\* C12: for 8 consecutive 6-hour buckets with one region's Cholera counts
\* 10,10,10,10,10,10,10,50, detectInSeries flags the final bucket and none of
\* the first seven, and the region's admission velocity is above 0.
OutbreakFlaggedWithVelocity ==
    (/\ op = "detectInSeries"
     /\ "admissionAgg" \in DOMAIN args
     /\ [i \in 1..Len(args.series) |-> args.series[i].value]
           = <<10, 10, 10, 10, 10, 10, 10, 50>>) =>
        /\ ret[8].isAnomaly
        /\ \A i \in 1..7 : ~ret[i].isAnomaly
        /\ AdmissionVelocity(args.admissionAgg, "region-1") > 0

\* the scenario itself: z = 2.65 in the last bucket, velocity (80 - 40) / 40 / 3
OutbreakScenarioDetected ==
    /\ op = "detectInSeries"
    /\ "admissionAgg" \in DOMAIN args
    /\ Len(ret) = 8
    /\ args.admissionAgg[8].byRegion["region-1"] = 50
    /\ ret[8].zScore = 265
    /\ AdmissionVelocity(args.admissionAgg, "region-1") = 3333

Pearson(seriesA, seriesB) ==
    LET n      == Min(Len(seriesA), Len(seriesB))
        a      == [i \in 1..n |-> seriesA[i].value]
        b      == [i \in 1..n |-> seriesB[i].value]
        statsA == Stats(a)
        statsB == Stats(b)
        sumProduct == SumSeq([i \in 1..n |-> FMul(a[i] - statsA.mean, b[i] - statsB.mean)])
    IN  FDiv(sumProduct, n * FMul(statsA.std, statsB.std))

\* the bucket of |r| with inclusive lower boundaries
ClaimedBucket(absCorr) ==
    IF absCorr * 10 >= 7 * Scale THEN "strong"
    ELSE IF absCorr * 10 >= 4 * Scale THEN "moderate"
    ELSE IF absCorr * 10 >= 2 * Scale THEN "weak"
    ELSE "negligible"

\* C14: the bucket correlate returns for a defined coefficient r is negligible
\* when |r| < 0.2, weak when 0.2 <= |r| < 0.4, moderate when 0.4 <= |r| < 0.7
\* and strong when |r| >= 0.7.
SignificanceBoundariesInclusive ==
    (/\ op = "correlate"
     /\ ret.significance \in {"negligible", "weak", "moderate", "strong"}) =>
        ret.significance = ClaimedBucket(Abs(Pearson(args.seriesA, args.seriesB)))

\* C16: every entry of the list analyzeWaterDiseaseCorrelation returns has
\* significance weak, moderate or strong (no 'negligible', 'insufficient
\* data' or 'no variance' entry is kept), and the list is in non-increasing
\* order of absolute correlation.
OnlyDefinedCorrelationsKept ==
    op = "analyzeWaterDiseaseCorrelation" =>
        /\ \A k \in 1..Len(ret) : ret[k].significance \in {"weak", "moderate", "strong"}
        /\ \A k \in 1..(Len(ret) - 1) : Abs(ret[k].correlation) >= Abs(ret[k + 1].correlation)

-----------------------------------------------------------------------------
(* DataPreprocessor called on its own: computeWQI on one set of readings,    *)
(* aggregateAdmissions on up to three admission records                      *)

\* readings in tenths: pH, turbidity (NTU), coliform count, dissolved oxygen,
\* chlorine residual
Tenths(x) == (x * Scale) \div 10

PHs == {Tenths(40), Tenths(65), Tenths(70), Tenths(72), Tenths(85), Tenths(120)}
Turbidities == {FP(-10), FP(0), FP(2), FP(5), FP(20), FP(30)}
Coliforms == {FP(0), FP(5), FP(199), FP(200), FP(300), FP(10000)}
Oxygens == {FP(0), FP(3), FP(7), FP(9)}
Chlorines == {Tenths(0), Tenths(1), Tenths(2), Tenths(5), Tenths(15)}

\* an admission record; kind 3 carries labels of no configured region,
\* disease or severity
Patient(timestamp, kind) ==
    [timestamp  |-> timestamp,
     disease    |-> CASE kind = 1 -> "Cholera" [] kind = 2 -> "Typhoid" [] OTHER -> "Plague",
     severity   |-> CASE kind = 1 -> "Mild" [] kind = 2 -> "Severe" [] OTHER -> "Unknown",
     regionId   |-> CASE kind = 1 -> "region-1" [] kind = 2 -> "region-2" [] OTHER -> "region-99",
     patientAge |-> 30 + kind,
     isAnomaly  |-> kind = 2]

\* minutes 00:00, 05:59, 06:00, 12:05 of the first day and 00:10 of the second
Patients == {Patient(t, k) : t \in {0, 359, 360, 725, MinutesPerDay + 10}, k \in 1..3}

PreprocessorInit ==
    /\ ServerEmpty
    /\ op = "idle"
    /\ \/ args \in [pH : PHs, turbidity : Turbidities, coliformCount : Coliforms,
                    dissolvedOxygen : Oxygens, chlorineResidual : Chlorines]
       \/ \E n \in 0..3 : \E records \in [1..n -> Patients] : \E bucketHours \in {6, 12} :
             args = [admissions |-> records, bucketHours |-> bucketHours]
    /\ ret = <<>>

CallComputeWQI ==
    /\ op = "idle"
    /\ "pH" \in DOMAIN args
    /\ op' = "computeWQI"
    /\ ret' = ComputeWQI(args)
    /\ UNCHANGED <<args, server>>

CallAggregateAdmissions ==
    /\ op = "idle"
    /\ "admissions" \in DOMAIN args
    /\ op' = "aggregateAdmissions"
    /\ ret' = AggregateAdmissions(args.admissions, args.bucketHours)
    /\ UNCHANGED <<args, server>>

PreprocessorNext ==
    \/ CallComputeWQI
    \/ CallAggregateAdmissions

SpecPreprocessor == PreprocessorInit /\ [][PreprocessorNext]_vars

\* the result is in 0..100 and does not rise with turbidity or with coliform
\* count, the other readings fixed
WQIBoundedAndMonotone ==
    /\ ret \in 0..100
    /\ \A t \in Turbidities :
          t >= args.turbidity => ComputeWQI([args EXCEPT !.turbidity = t]) <= ret
    /\ \A c \in Coliforms :
          c >= args.coliformCount => ComputeWQI([args EXCEPT !.coliformCount = c]) <= ret

\* pH 6.5..8.5, turbidity 0..5 NTU, dissolved oxygen 5 mg/L or more, chlorine
\* residual 0.2 mg/L or more
OtherReadingsNormal ==
    /\ args.pH >= Tenths(65) /\ args.pH <= Tenths(85)
    /\ args.turbidity >= 0 /\ args.turbidity <= FP(5)
    /\ args.dissolvedOxygen >= FP(5)
    /\ args.chlorineResidual >= Tenths(2)

BreakdownKeysCanonical ==
    op = "aggregateAdmissions" =>
        /\ SumSeq([k \in 1..Len(ret) |-> ret[k].total]) = Len(args.admissions)
        /\ \A k \in 1..Len(ret) :
              /\ DOMAIN ret[k].byRegion \subseteq {Regions[i].id : i \in 1..Len(Regions)}
              /\ DOMAIN ret[k].byDisease \subseteq {Diseases[i] : i \in 1..Len(Diseases)}
              /\ DOMAIN ret[k].bySeverity \subseteq {"Mild", "Moderate", "Severe"}

\* the published state is the output of a full run of the pipeline on the
\* files as they are now
PublishedFromCurrentFiles ==
    /\ admFile \in DOMAIN Runs
    /\ waterFile \in DOMAIN Runs[admFile]
    /\ \E t \in Times : Published = Runs[admFile][waterFile][t]

\* C20: a second successful run of the pipeline on the same input, at any
\* later wall-clock time, leaves the aggregates, the forecasts and the
\* classifications as the first run made them.
RecomputeIgnoresClock ==
    [][(/\ PublishedFromCurrentFiles
        /\ PostRefresh
        /\ response'.status = 200
        /\ response'.body.success) =>
           /\ admissionAgg' = admissionAgg
           /\ waterAgg' = waterAgg
           /\ forecasts' = forecasts
           /\ riskClassifications' = riskClassifications]_vars

\* C21: in a recompute that completes, every stage works on what the stages
\* before it produced in the same run: the aggregates come from the records
\* just loaded, the anomalies, correlations and forecasts from those
\* aggregates, the classifications from those aggregates and forecasts, and
\* the alerts from those classifications and anomalies.
StagesConsumeSameRun ==
    [][(PostRefresh /\ response'.status = 200 /\ response'.body.success) =>
           /\ admissionAgg' = AggregateAdmissions(admissions', 6)
           /\ waterAgg' = AggregateWaterQuality(waterQuality', 24)
           /\ anomalies' = DetectAdmissionAnomalies(admissionAgg')
           /\ correlations' = AnalyzeWaterDiseaseCorrelation(admissionAgg', waterAgg')
           /\ forecasts' = ForecastAll(admissionAgg', clock)
           /\ riskClassifications' =
                 ClassifyAll(Regions, admissionAgg', waterAgg', forecasts')
           /\ alerts' = GenerateAlerts(riskClassifications', anomalies', clock)]_vars

\* a recompute after startup has completed on an outbreak and raised alerts
RecomputedWithAlerts ==
    /\ response # <<>>
    /\ response.status = 200
    /\ response.body.success
    /\ clock > StartupTime
    /\ forecasts.generatedAt = clock
    /\ admissions = AdmissionData["outbreak"]
    /\ riskClassifications = ClassifyAll(Regions, admissionAgg, waterAgg, forecasts)
    /\ Len(alerts) > 0

-----------------------------------------------------------------------------
(* the factors of classifyRegion, one at a time *)

\* C22: the trend factor is 0.5 for a region without forecast and for a
\* forecast that is 'insufficient_data' or 'stable'; min(1, 0.6 + 0.1 m) and
\* above 0.6 for a 'rising' one of magnitude m; max(0, 0.4 - 0.1 |m|) and
\* below 0.4 for a 'falling' one. The classification reports it rounded to
\* two decimals.
TrendFactorByDirection ==
    op = "classifyRegion" =>
        LET forecast == args.forecast
            factor   == TrendScore(forecast)
            tenth    == Scale \div 10
        IN  /\ forecast = NoForecast => factor = 5 * tenth
            /\ forecast.trend \in {"insufficient_data", "stable"} => factor = 5 * tenth
            /\ forecast.trend = "rising" =>
                  /\ factor * 1000 = Min(FP(1000), FP(600) + forecast.trendValue * Scale)
                  /\ factor > 6 * tenth
            /\ forecast.trend = "falling" =>
                  /\ factor * 1000 = Max(0, FP(400) - Abs(forecast.trendValue) * Scale)
                  /\ factor < 4 * tenth
            /\ forecast.trend \in {"none", "insufficient_data", "stable", "rising", "falling"}
            /\ ret.factors.trendScore.value = Round2(factor)

\* a region whose admissions fell, classified with a trend factor under 0.4
FallingRegionClassified ==
    /\ op = "classifyRegion"
    /\ args.forecast.trend = "falling"
    /\ args.forecast.trendValue < -50
    /\ ret.factors.trendScore.value < 40
    /\ ret.factors.trendScore.value > 0

\* the WQI of a region in one water aggregate period, 50 standing for a
\* period without readings of the region
PeriodWQI(period, regionId) ==
    IF regionId \notin DOMAIN period.regionAverages THEN 50
    ELSE LET data == period.regionAverages[regionId]
         IN  ComputeWQI([pH |-> data.avgPH, turbidity |-> data.avgTurbidity,
                         coliformCount |-> data.avgColiform,
                         dissolvedOxygen |-> data.avgDO,
                         chlorineResidual |-> Scale \div 2])

\* the water aggregates with the region's average coliform count of period k
\* raised by delta
ColiformRaised(water, regionId, k, delta) ==
    [i \in 1..Len(water) |->
        IF i = k /\ regionId \in DOMAIN water[i].regionAverages
        THEN [water[i] EXCEPT !.regionAverages[regionId].avgColiform = @ + delta]
        ELSE water[i]]

\* C23: the water-quality factor of a region is 1 - (average WQI of the last
\* 3 water aggregate periods) / 100, a period without readings of the region
\* counting as WQI 50; it lies in [0,1], is 0.5 without any water aggregate,
\* and does not decrease when the region's average coliform count of one of
\* those periods rises.
WaterFactorInvertsRecentWQI ==
    op = "classifyRegion" =>
        LET water  == args.waterAgg
            id     == args.region.id
            factor == WaterQualityScore(water, id)
            first  == Max(1, Len(water) - 2)
            count  == Len(water) - first + 1
            total  == SumSeq([k \in 1..count |-> PeriodWQI(water[first + k - 1], id)])
        IN  /\ InUnit(factor)
            /\ Len(water) = 0 => factor = Scale \div 2
            /\ Len(water) > 0 => factor = FP(1) - IDiv(IDiv(FP(total), count), 100)
            /\ \A k \in first..Len(water), delta \in {FP(1), FP(50), FP(1000)} :
                  WaterQualityScore(ColiformRaised(water, id, k, delta), id) >= factor
            /\ ret.factors.waterQuality.value = Round2(factor)

\* four periods, the oldest outside the three that count, the latest fouled:
\* WQI 86, 86 and 18, factor 0.3667
FouledLatestPeriodScored ==
    /\ op = "classifyRegion"
    /\ Len(args.waterAgg) = 4
    /\ args.region.id = "region-1"
    /\ args.waterAgg[4].regionAverages["region-1"].hasAnomaly
    /\ WaterQualityScore(args.waterAgg, "region-1") = 3667
    /\ ret.factors.waterQuality.value = 37

-----------------------------------------------------------------------------
(* the horizon of forecast *)

RecentCount ==
    RegionCount(SubSeq(args.admissionAgg, Max(1, Len(args.admissionAgg) - 3),
                       Len(args.admissionAgg)), args.region.id)

PriorCount ==
    RegionCount(SubSeq(args.admissionAgg, Max(1, Len(args.admissionAgg) - 7),
                       Len(args.admissionAgg) - 4), args.region.id)

\* C25: the velocity factor is in [0,1]; it is 0 whenever the recent count
\* does not exceed the prior count, strictly positive whenever the recent
\* count exceeds the prior count, and 1 whenever it exceeds it and is at least
\* 4 times the prior count.
VelocityFollowsRelativeChange ==
    op = "classifyRegion" =>
        LET factor == AdmissionVelocity(args.admissionAgg, args.region.id)
        IN  /\ InUnit(factor)
            /\ RecentCount <= PriorCount => factor = 0
            /\ RecentCount > PriorCount => factor > 0
            /\ (RecentCount > PriorCount /\ RecentCount >= 4 * PriorCount) => factor = FP(1)

(* the order of classifyAll against the tiers *)

TierRank(riskLevel) ==
    CASE riskLevel = "CRITICAL" -> 4
      [] riskLevel = "HIGH"     -> 3
      [] riskLevel = "MODERATE" -> 2
      [] OTHER                  -> 1

\* C26: in the list returned by classifyAll no region of a lower tier
\* precedes a region of a higher tier
OrderAgreesWithTiers ==
    op = "classifyAll" =>
        \A k \in 1..Len(ret) : \A m \in (k + 1)..Len(ret) :
            TierRank(ret[k].riskLevel) >= TierRank(ret[m].riskLevel)


(* the counts of aggregateAdmissions *)

\* the sum of the counts of a breakdown
RECURSIVE CountSum(_)
CountSum(counts) ==
    IF DOMAIN counts = {} THEN 0
    ELSE LET key == CHOOSE k \in DOMAIN counts : TRUE
         IN  counts[key] + CountSum([k \in DOMAIN counts \ {key} |-> counts[k]])

\* C27: in every bucket of aggregateAdmissions the counts are naturals,
\* the byDisease, the byRegion and the bySeverity counts each add up to the
\* bucket's total and anomalyCount is at most the total; the totals of all
\* buckets add up to the number of input records.
CountsAddUpToTotal ==
    op = "aggregateAdmissions" =>
        /\ SumSeq([k \in 1..Len(ret) |-> ret[k].total]) = Len(args.admissions)
        /\ \A k \in 1..Len(ret) :
              LET bucket == ret[k]
              IN  /\ bucket.total \in Nat
                  /\ \A d \in DOMAIN bucket.byDisease : bucket.byDisease[d] \in Nat
                  /\ \A g \in DOMAIN bucket.byRegion : bucket.byRegion[g] \in Nat
                  /\ \A v \in DOMAIN bucket.bySeverity : bucket.bySeverity[v] \in Nat
                  /\ CountSum(bucket.byDisease) = bucket.total
                  /\ CountSum(bucket.byRegion) = bucket.total
                  /\ CountSum(bucket.bySeverity) = bucket.total
                  /\ bucket.anomalyCount \in 0..bucket.total

\* two buckets, one of them with an anomalous record and a record whose
\* disease, region and severity are not among the known ones
MixedBucketAggregated ==
    /\ op = "aggregateAdmissions"
    /\ Len(ret) = 2
    /\ \E k \in 1..Len(ret) :
          /\ ret[k].total = 2
          /\ ret[k].anomalyCount = 1
          /\ DOMAIN ret[k].byDisease = {"Typhoid", "Plague"}
          /\ ret[k].bySeverity = [Mild |-> 0, Moderate |-> 0, Severe |-> 1, Unknown |-> 1]


(* the data each factor of classifyAll reads *)

\* the aggregate with everything but the admissions of one region erased
OwnAdmissions(aggregated, regionId) ==
    [k \in 1..Len(aggregated) |->
        [timestamp |-> aggregated[k].timestamp,
         total |-> Get(aggregated[k].byRegion, regionId),
         byDisease |-> <<>>,
         byRegion |-> [g \in DOMAIN aggregated[k].byRegion \cap {regionId} |->
                          aggregated[k].byRegion[g]],
         regionKeys |-> SelectSeq(aggregated[k].regionKeys, LAMBDA g : g = regionId),
         bySeverity |-> [v \in {"Mild", "Moderate", "Severe"} |-> 0],
         avgAge |-> 0,
         anomalyCount |-> 0]]

\* the water aggregate with the averages of every other region erased
OwnWater(waterAggregates, regionId) ==
    [k \in 1..Len(waterAggregates) |->
        [timestamp |-> waterAggregates[k].timestamp,
         regionAverages |->
             [g \in DOMAIN waterAggregates[k].regionAverages \cap {regionId} |->
                 waterAggregates[k].regionAverages[g]]]]

\* C29: within one classifyAll call every region gets the same
\* severity-index factor, computed from the bySeverity and total counts of
\* the last 8 buckets of all regions; the velocity, water-quality, historical,
\* population and trend factors of a region are those obtained from the data
\* of that region alone.
SeveritySharedOthersOwn ==
    op = "classifyAll" =>
        \A k \in 1..Len(ret) :
            LET region == CHOOSE r \in {args.regions[i] : i \in 1..Len(args.regions)} :
                              r.id = ret[k].regionId
                own    == OwnAdmissions(args.admissionAgg, region.id)
                f      == ret[k].factors
            IN  /\ f.severityIndex.value = Round2(SeverityIndex(args.admissionAgg))
                /\ f.severityIndex = ret[1].factors.severityIndex
                /\ f.admissionVelocity.value = Round2(AdmissionVelocity(own, region.id))
                /\ f.waterQuality.value =
                       Round2(WaterQualityScore(OwnWater(args.waterAgg, region.id), region.id))
                /\ f.historicalRisk.value = Round2(region.historicalRisk)
                /\ f.populationDensity.value = Round2(PopulationDensity(region))
                /\ f.trendScore.value =
                       Round2(TrendScore(ForecastOf(ForecastAll(own, 0), region.id)))

\* severe admissions of another region while region-1 has a rising count of
\* its own: all regions share a positive severity index, region-1 alone has
\* a positive velocity
SevereElsewhereRisingHere ==
    /\ op = "classifyAll"
    /\ \E k, m \in 1..Len(ret) :
          /\ ret[k].regionId = "region-1"
          /\ ret[m].regionId = "region-2"
          /\ ret[k].factors.admissionVelocity.value > 0
          /\ ret[m].factors.admissionVelocity.value = 0
          /\ ret[k].factors.severityIndex.value > 0
          /\ ret[k].factors.waterQuality.value # ret[m].factors.waterQuality.value
    /\ RegionCount(args.admissionAgg, "region-2") > 0


(* what a request handler can observe between recomputes *)

\* the seven derived variables of a result set
Derived(s) ==
    [admissionAgg |-> s.admissionAgg, waterAgg |-> s.waterAgg,
     anomalies |-> s.anomalies, forecasts |-> s.forecasts,
     riskClassifications |-> s.riskClassifications, alerts |-> s.alerts,
     correlations |-> s.correlations]

\* the derived variables are those of one run, or still the initial ones
FromOneRun ==
    \/ Derived(Published) = Derived(Unloaded)
    \/ \E a \in DOMAIN Runs : \E w \in DOMAIN Runs[a] : \E t \in Times :
          Derived(Published) = Derived(Runs[a][w][t])

\* C30: handlers run one at a time and to completion, so what a read
\* observes is the state between two steps; as long as no recompute raises,
\* admissionAgg, waterAgg, anomalies, forecasts, riskClassifications, alerts
\* and correlations are in every such state those of one single run.
ReadsObserveOneRun ==
    /\ FromOneRun
    /\ [][(FromOneRun /\ ~(PostRefresh /\ response'.status = 500)) => FromOneRun']_vars

\* a second run has been published and the admissions file rewritten since
SecondRunPublishedFilesMovedOn ==
    /\ response # <<>>
    /\ response.status = 200
    /\ response.body.success
    /\ clock > StartupTime
    /\ Derived(Published) = Derived(Runs["outbreak"]["fouled"][clock])
    /\ admFile = "quiet"


(* IEEE 754 binary64, the arithmetic of a JavaScript number.  Integers of  *)
(* up to 112 bits are sequences of 8 limbs of 14 bits, least significant   *)
(* first; +, -, *, / and Math.sqrt round to nearest, ties to even.         *)

\* the width of a significand, and how the integers that hold significands and
\* their products are cut into limbs
Binary64 == [mantissaBits |-> 53, limbBits |-> 14, numLimbs |-> 8, limbBase |-> 16384]

LimbBase == Binary64.limbBase
LimbBits == Binary64.limbBits
NumLimbs == Binary64.numLimbs
MantissaBits == Binary64.mantissaBits

TwoTo(k) == CASE k = 0 -> 1 [] k = 1 -> 2 [] k = 2 -> 4 [] k = 3 -> 8 [] k = 4 -> 16
              [] k = 5 -> 32 [] k = 6 -> 64 [] k = 7 -> 128 [] k = 8 -> 256
              [] k = 9 -> 512 [] k = 10 -> 1024 [] k = 11 -> 2048 [] k = 12 -> 4096
              [] k = 13 -> 8192 [] OTHER -> 16384

BigZero == <<0, 0, 0, 0, 0, 0, 0, 0>>

BigOne == <<1, 0, 0, 0, 0, 0, 0, 0>>

BigOf(n) ==
    CHOOSE out \in {<<v % LimbBase, (v \div LimbBase) % LimbBase,
                      v \div (LimbBase * LimbBase), 0, 0, 0, 0, 0>> : v \in {n}} : TRUE

Limb(x, i) == IF i \in 1..NumLimbs THEN x[i] ELSE 0

BigShl(a, s) ==
    CHOOSE out \in
        {LET l(i) == ((Limb(x, i - q) * TwoTo(r)) % LimbBase)
                     + (Limb(x, i - q - 1) \div TwoTo(LimbBits - r))
         IN  <<l(1), l(2), l(3), l(4), l(5), l(6), l(7), l(8)>> :
            x \in {a}, q \in {s \div LimbBits}, r \in {s % LimbBits}} : TRUE

BigShr(a, s) ==
    CHOOSE out \in
        {LET l(i) == (Limb(x, i + q) \div TwoTo(r))
                     + ((Limb(x, i + q + 1) % TwoTo(r)) * TwoTo(LimbBits - r))
         IN  <<l(1), l(2), l(3), l(4), l(5), l(6), l(7), l(8)>> :
            x \in {a}, q \in {s \div LimbBits}, r \in {s % LimbBits}} : TRUE

\* the most significant limb in which x and y differ, 0 when they are equal
TopDifference(x, y) ==
    IF x = y THEN 0
    ELSE CHOOSE i \in 1..NumLimbs :
             x[i] # y[i] /\ \A j \in (i + 1)..NumLimbs : x[j] = y[j]

BigCmp(a, b) ==
    CHOOSE out \in
        {IF top = 0 THEN 0 ELSE IF x[top] < y[top] THEN -1 ELSE 1 :
            <<x, y, top>> \in {<<u, v, TopDifference(u, v)>> : u \in {a}, v \in {b}}} : TRUE

RECURSIVE Carry(_, _, _)
Carry(x, y, i) == IF i = 0 THEN 0 ELSE (x[i] + y[i] + Carry(x, y, i - 1)) \div LimbBase

BigAdd(a, b) ==
    CHOOSE out \in
        {LET l(i) == (x[i] + y[i] + Carry(x, y, i - 1)) % LimbBase
         IN  <<l(1), l(2), l(3), l(4), l(5), l(6), l(7), l(8)>> :
            x \in {a}, y \in {b}} : TRUE

RECURSIVE Borrow(_, _, _)
Borrow(x, y, i) ==
    IF i = 0 THEN 0 ELSE IF x[i] - y[i] - Borrow(x, y, i - 1) < 0 THEN 1 ELSE 0

BigSub(a, b) ==
    CHOOSE out \in
        {LET l(i) == (x[i] - y[i] - Borrow(x, y, i - 1) + LimbBase) % LimbBase
         IN  <<l(1), l(2), l(3), l(4), l(5), l(6), l(7), l(8)>> :
            x \in {a}, y \in {b}} : TRUE

Column(x, y, k) ==
    LET term(i) == IF k + 1 - i \in 1..4 THEN x[i] * y[k + 1 - i] ELSE 0
    IN  term(1) + term(2) + term(3) + term(4)

RECURSIVE MulCarry(_, _, _)
MulCarry(x, y, k) ==
    IF k = 0 THEN 0 ELSE (Column(x, y, k) + MulCarry(x, y, k - 1)) \div LimbBase

BigMul(a, b) ==
    CHOOSE out \in
        {LET l(k) == (Column(x, y, k) + MulCarry(x, y, k - 1)) % LimbBase
         IN  <<l(1), l(2), l(3), l(4), l(5), l(6), l(7), l(8)>> :
            x \in {a}, y \in {b}} : TRUE

BitLength(a) ==
    CHOOSE out \in
        {IF top = 0 THEN 0
         ELSE (top - 1) * LimbBits
              + (CHOOSE k \in 1..LimbBits : x[top] < TwoTo(k) /\ x[top] >= TwoTo(k - 1)) :
            <<x, top>> \in {<<u, TopDifference(u, BigZero)>> : u \in {a}}} : TRUE

(* a double: sign, 53-bit significand m and exponent e, the value m * 2^e;
   0 has the significand 0 *)

DZero == [neg |-> FALSE, m |-> BigZero, e |-> 0]

IsZero(x) == x.m = BigZero

\* q * 2^e, one up in the last place if up
RoundedUp(neg, q, e, up) ==
    IF ~up THEN [neg |-> neg, m |-> q, e |-> e]
    ELSE CHOOSE out \in
             {IF BitLength(q2) > MantissaBits
              THEN [neg |-> neg, m |-> BigShr(q2, 1), e |-> e + 1]
              ELSE [neg |-> neg, m |-> q2, e |-> e] : q2 \in {BigAdd(q, BigOne)}} : TRUE

\* n * 2^e (and a little more when sticky) rounded to nearest, ties to even
RoundToDouble(neg, n, e, sticky) ==
    CHOOSE out \in
        {IF len = 0 THEN DZero
         ELSE IF len <= MantissaBits
              THEN [neg |-> neg, m |-> BigShl(big, MantissaBits - len),
                    e |-> e - (MantissaBits - len)]
         ELSE CHOOSE rounded \in
                  {RoundedUp(neg, q, e + (len - MantissaBits),
                             c > 0 \/ (c = 0 /\ (sticky \/ q[1] % 2 = 1))) :
                      <<q, c>> \in
                          {<<u, BigCmp(BigSub(big, BigShl(u, len - MantissaBits)),
                                       BigShl(BigOne, len - MantissaBits - 1))>> :
                              u \in {BigShr(big, len - MantissaBits)}}} : TRUE :
            <<big, len>> \in {<<u, BitLength(u)>> : u \in {n}}} : TRUE

DOfInt(n) == RoundToDouble(n < 0, BigOf(IF n < 0 THEN -n ELSE n), 0, FALSE)

DNeg(x) == CHOOSE out \in {[a EXCEPT !.neg = ~a.neg] : a \in {x}} : TRUE

DAbs(x) == CHOOSE out \in {[a EXCEPT !.neg = FALSE] : a \in {x}} : TRUE

\* hi + lo with big = hi.m * 2^(hi.e - lo.e)
AddAligned(hi, lo, big) ==
    IF hi.neg = lo.neg THEN RoundToDouble(hi.neg, BigAdd(big, lo.m), lo.e, FALSE)
    ELSE IF big = lo.m THEN DZero
    ELSE IF BigCmp(big, lo.m) > 0
         THEN RoundToDouble(hi.neg, BigSub(big, lo.m), lo.e, FALSE)
    ELSE RoundToDouble(lo.neg, BigSub(lo.m, big), lo.e, FALSE)

\* hi + lo for hi.e >= lo.e, neither 0
AddOrdered(hi, lo) ==
    IF hi.e - lo.e > 58 THEN hi
    ELSE CHOOSE out \in
             {AddAligned(hi, lo, big) : big \in {BigShl(hi.m, hi.e - lo.e)}} : TRUE

DAdd(x, y) ==
    CHOOSE out \in
        {IF IsZero(a) THEN b
         ELSE IF IsZero(b) THEN a
         ELSE IF a.e >= b.e THEN AddOrdered(a, b) ELSE AddOrdered(b, a) :
            a \in {x}, b \in {y}} : TRUE

DSub(x, y) == DAdd(x, DNeg(y))

DMul(x, y) ==
    CHOOSE out \in
        {IF IsZero(a) \/ IsZero(b) THEN DZero
         ELSE RoundToDouble(a.neg # b.neg, BigMul(a.m, b.m), a.e + b.e, FALSE) :
            a \in {x}, b \in {y}} : TRUE

\* the next digit of a quotient: the largest t with t * d <= r, for r < d * LimbBase
\* and d of 4 limbs with its top bit set; the estimate from the leading limbs
\* is at most 2 too large
DivDigit(r, d) ==
    CHOOSE out \in
        {CHOOSE t \in Max(0, estimate - 2)..estimate :
             /\ BigCmp(BigMul(d, BigOf(t)), r) <= 0
             /\ BigCmp(BigMul(d, BigOf(t + 1)), r) > 0 :
            estimate \in {Min(LimbBase - 1, (r[5] * LimbBase + r[4]) \div d[4])}} : TRUE

\* long division of the limbs i, i - 1, ... 1 of n by d: remainder r, quotient q
RECURSIVE DivLimbs(_, _, _, _, _)
DivLimbs(n, d, i, r, q) ==
    CHOOSE out \in
        {IF i1 = 0 THEN [r |-> r1, q |-> q1]
         ELSE CHOOSE rest \in
                  {DivLimbs(n1, d1, i1 - 1, BigSub(r2, BigMul(d1, BigOf(t))),
                            [BigShl(q1, LimbBits) EXCEPT ![1] = t]) :
                      <<r2, t>> \in {<<u, DivDigit(u, d1)>> :
                                        u \in {[BigShl(r1, LimbBits) EXCEPT ![1] = n1[i1]]}}} : TRUE :
            n1 \in {n}, d1 \in {d}, i1 \in {i}, r1 \in {r}, q1 \in {q}} : TRUE

\* n \div d as q, with r = 0 iff d divides n; d has 43 to 56 bits
BigDivMod(n, d) ==
    CHOOSE out \in
        {DivLimbs(BigShl(n1, 56 - len), BigShl(d1, 56 - len), NumLimbs, BigZero, BigZero) :
            <<n1, d1, len>> \in {<<u, v, BitLength(v)>> : u \in {n}, v \in {d}}} : TRUE

DDiv(x, y) ==
    CHOOSE out \in
        {IF IsZero(a) THEN DZero
         ELSE CHOOSE quotient \in
                  {RoundToDouble(a.neg # b.neg, st.q, a.e - b.e - 55, st.r # BigZero) :
                      st \in {BigDivMod(BigShl(a.m, 55), b.m)}} : TRUE :
            a \in {x}, b \in {y}} : TRUE

\* Newton's iteration for the integer square root of n, from x above it
RECURSIVE SqrtLoop(_, _)
SqrtLoop(n, x) ==
    CHOOSE out \in
        {IF BigCmp(y, x1) >= 0 THEN x1 ELSE SqrtLoop(n1, y) :
            <<n1, x1, y>> \in
                {<<u, v, BigShr(BigAdd(v, BigDivMod(u, v).q), 1)>> : u \in {n}, v \in {x}}} : TRUE

DSqrt(x) ==
    CHOOSE out \in
        {IF IsZero(a) THEN DZero
         ELSE CHOOSE root \in
                  {RoundToDouble(FALSE, res, (a.e - k) \div 2, BigMul(res, res) # n) :
                      <<k, n, res>> \in
                          {<<j, u, SqrtLoop(u, <<16383, 16383, 16383, 16383, 0, 0, 0, 0>>)>> :
                              <<j, u>> \in {<<i, BigShl(a.m, i)>> :
                                              i \in {IF (a.e + 58) % 2 = 0 THEN 58 ELSE 57}}}} : TRUE :
            a \in {x}} : TRUE

\* x > y
DGreater(x, y) == CHOOSE out \in {~IsZero(d) /\ ~d.neg : d \in {DSub(x, y)}} : TRUE

\* Math.round: the nearest integer, halves towards +Infinity
DRound(x) ==
    CHOOSE out \in
        {IF IsZero(a) \/ a.e >= 0 THEN a
         ELSE IF -a.e > 60 THEN DZero
         ELSE CHOOSE rounded \in
                  {RoundToDouble(a.neg,
                                 IF (IF a.neg THEN c > 0 ELSE c >= 0)
                                 THEN BigAdd(ip, BigOne) ELSE ip, 0, FALSE) :
                      <<ip, c>> \in
                          {<<u, BigCmp(BigSub(a.m, BigShl(u, -a.e)), BigShl(BigOne, -a.e - 1))>> :
                              u \in {BigShr(a.m, -a.e)}}} : TRUE :
            a \in {x}} : TRUE

(* AnomalyDetector.detectInSeries in binary64 *)

\* the sum of the first k of s as reduce computes it, left to right from 0
RECURSIVE DSum(_, _)
DSum(s, k) == IF k = 0 THEN DZero ELSE DAdd(DSum(s, k - 1), s[k])

\* Math.round(x * 100) / 100
DRound2(x) == DDiv(DRound(DMul(x, DOfInt(100))), DOfInt(100))

\* the squared deviations of values from mean; (v - mean) ** 2 is the correctly
\* rounded square
SquaredDeviations(values, mean) ==
    [i \in 1..Len(values) |->
        CHOOSE sq \in {DMul(d, d) : d \in {DSub(values[i], mean)}} : TRUE]

\* _stats
StatsBinary64(values) ==
    IF Len(values) = 0 THEN [mean |-> DZero, std |-> DZero]
    ELSE CHOOSE st \in
             {[mean |-> mean,
               std |-> DSqrt(DDiv(DSum(SquaredDeviations(values, mean), Len(values)),
                                  DOfInt(Len(values))))] :
                 mean \in {DDiv(DSum(values, Len(values)), DOfInt(Len(values)))}} : TRUE

DetectAtBinary64(series, i) ==
    CHOOSE result \in
        {[timestamp |-> series[i].timestamp,
          value |-> series[i].value,
          mean |-> DRound2(st.mean),
          std |-> DRound2(st.std),
          zScore |-> DRound2(zScore),
          isAnomaly |-> DGreater(DAbs(zScore), DOfInt(2))] :
            <<st, zScore>> \in
                {<<stats, IF IsZero(stats.std) THEN DZero
                          ELSE DDiv(DSub(DOfInt(series[i].value), stats.mean), stats.std)>> :
                    stats \in {StatsBinary64(
                                   [k \in 1..(i - Max(1, i - WindowSize) + 1) |->
                                       DOfInt(series[Max(1, i - WindowSize) + k - 1].value)])}}} : TRUE

DetectInSeriesBinary64(series) ==
    [i \in 1..Len(series) |-> DetectAtBinary64(series, i)]

\* steady admission counts
SteadyLen == 5
SteadyCounts == {8, 9}

DetectorBinary64Init ==
    /\ ServerEmpty
    /\ op = "idle"
    /\ args \in {[series |-> SeriesOf(v)] :
                    v \in UNION {[1..n -> SteadyCounts] : n \in 0..SteadyLen}}
    /\ ret = <<>>

CallDetectInSeriesBinary64 ==
    /\ op = "idle"
    /\ op' = "detectInSeries"
    /\ ret' = DetectInSeriesBinary64(args.series)
    /\ UNCHANGED <<args, server>>

DetectorBinary64Next == CallDetectInSeriesBinary64

SpecDetectorBinary64 == DetectorBinary64Init /\ [][DetectorBinary64Next]_vars

\* C28: detectInSeries returns one result per input point, in input order
\* and with the input timestamps and values; with the threshold 2.0 none of
\* the first 5 points of a series is flagged, and the first point has z = 0.
FirstFivePointsNeverFlagged ==
    op = "detectInSeries" =>
        /\ Len(ret) = Len(args.series)
        /\ \A i \in 1..Len(ret) :
              /\ ret[i].timestamp = args.series[i].timestamp
              /\ ret[i].value = args.series[i].value
        /\ \A i \in 1..Min(5, Len(ret)) : ~ret[i].isAnomaly
        /\ Len(ret) >= 1 => IsZero(ret[1].zScore)

\* what remains of it in binary64: the results line up with the input, the
\* first point has z = 0, and none of the first 4 points is flagged
FirstFourPointsNeverFlagged ==
    op = "detectInSeries" =>
        /\ Len(ret) = Len(args.series)
        /\ \A i \in 1..Len(ret) :
              /\ ret[i].timestamp = args.series[i].timestamp
              /\ ret[i].value = args.series[i].value
        /\ \A i \in 1..Min(4, Len(ret)) : ~ret[i].isAnomaly
        /\ Len(ret) >= 1 => IsZero(ret[1].zScore)

============================================================================
